---------------------------- MODULE Spec2Model ----------------------------
(***************************************************************************)
(* Model of the scheduled ETL jobs of the stock-market repository:         *)
(*                                                                         *)
(*   - the holder and financial-statement reconcilers                      *)
(*       data_ingestion/8.2_daily_major_holders.py                         *)
(*       data_ingestion/6.2_daily_financial_statements.py                  *)
(*   - the daily price job      data_ingestion/2.3_daily_prices.py         *)
(*   - the daily corporate-actions job                                     *)
(*       data_ingestion/3.2_daily_corporate_actions.py                     *)
(*                                                                         *)
(* Python values are modelled as strings: None is "None", a float NaN is   *)
(* "NaN", numbers are their printed form ("100", "100.00"), dates are ISO  *)
(* strings.  Tables are sequences of rows; a row's id is its position.     *)
(***************************************************************************)
EXTENDS Naturals, Sequences, FiniteSets, TLC

VARIABLES
    major_holders,          \* table major_holders (models.py MajorHolder)
    financial_statements,   \* table financial_statements (models.py FinancialStatement)
    before,                 \* the table the last call worked on, as it was when the call started
    calls                   \* the reconciler calls made so far, oldest first

reconcile_vars == <<major_holders, financial_statements, before, calls>>

VARIABLES
    prices,                 \* table prices (models.py Price)
    yf_not_found,           \* companies.yf_not_found, by company id
    price_run,              \* the locals of fetch_latest_prices and where it stands
    price_runs,             \* runs of the daily price job started so far
    price_last              \* what the last processed batch of the price job did

price_vars == <<prices, yf_not_found, price_run, price_runs, price_last>>

VARIABLES
    corporate_actions,      \* table corporate_actions (models.py CorporateAction)
    action_run,             \* the locals of fetch_and_store_latest_corporate_actions
    action_log              \* one record per run of the corporate-actions job

action_vars == <<corporate_actions, action_run, action_log>>

VARIABLES
    companies_table,        \* table companies as the company import sees it (models.py Company)
    imports                 \* one record per call of import_new_companies_from_csv

import_vars == <<companies_table, imports>>

VARIABLES
    comparison              \* a call of a compare function: its arguments and its result

compare_vars == <<comparison>>

VARIABLES
    writers                 \* two runs of the price job at once: each run's locals

race_vars == <<writers>>

VARIABLES
    metric_trades,          \* the insider trades update_insider_metrics reads
    metrics_table,          \* table cumulative_insider_metrics: whether it exists, and its rows
    metrics_run             \* the run of update_insider_metrics: locals of main and update_metrics

metrics_vars == <<metric_trades, metrics_table, metrics_run>>

VARIABLES
    insidertrades,          \* table insidertrades (create_insider_trades_table_direct.py)
    trade_imports           \* one record per run of import_insider_trades_incremental.py

trades_vars == <<insidertrades, trade_imports>>

VARIABLES
    pg_tables,              \* the tables of the database by name, each with its rows
    backups                 \* one record per call of backup_prices_table

backup_vars == <<pg_tables, backups>>

VARIABLES
    load_run                \* the run of the one-time corporate-actions load: its locals

load_vars == <<load_run>>

\* the state of the jobs other than the reconcilers, the price job and the
\* corporate-actions job
later_vars == <<import_vars, compare_vars, race_vars, metrics_vars, trades_vars, backup_vars, load_vars>>

\* what a call of the company import leaves alone
beside_import == <<reconcile_vars, price_vars, action_vars, compare_vars, race_vars, metrics_vars, trades_vars, backup_vars, load_vars>>

\* what a call of a compare function leaves alone
beside_compare == <<reconcile_vars, price_vars, action_vars, import_vars, race_vars, metrics_vars, trades_vars, backup_vars, load_vars>>

\* what a step of one of two price runs at once leaves alone, besides the
\* locals of the single price run
beside_race ==
    <<reconcile_vars, action_vars, import_vars, compare_vars, metrics_vars, trades_vars, backup_vars, load_vars>>

\* what a step of the insider-metrics job leaves alone
beside_metrics ==
    <<reconcile_vars, price_vars, action_vars, import_vars, compare_vars, race_vars, trades_vars, backup_vars, load_vars>>

\* what a run of the insider-trades import leaves alone
beside_trades ==
    <<reconcile_vars, price_vars, action_vars, import_vars, compare_vars, race_vars, metrics_vars, backup_vars, load_vars>>

\* what a call of the daily prices backup leaves alone
beside_backup ==
    <<reconcile_vars, price_vars, action_vars, import_vars, compare_vars, race_vars, metrics_vars, trades_vars, load_vars>>

\* what a step of the one-time corporate-actions load leaves alone, with the locals of the daily job
beside_load ==
    <<reconcile_vars, price_vars, import_vars, compare_vars, race_vars, metrics_vars, trades_vars, backup_vars>>

vars == <<reconcile_vars, price_vars, action_vars, later_vars>>

-----------------------------------------------------------------------------
(* Bounds *)

\* reconciler calls in one behaviour
MaxCalls == 2
\* records in one incoming list
MaxIncoming == 2
\* runs of the daily price job in one behaviour
MaxPriceRuns == 1
\* runs of the daily corporate-actions job in one behaviour
MaxActionRuns == 2
\* rows of one company CSV
MaxCsvRows == 2
\* runs of the insider-metrics job in a behaviour
MaxMetricsRuns == 2
\* insider trades in the table the insider-metrics job reads
MaxMetricTrades == 2
\* runs of the insider-trades import in a behaviour
MaxTradeImports == 2
\* data rows in a CSV file of insider trades
MaxTradeRows == 2
\* calls of the daily prices backup in a behaviour
MaxBackupRuns == 2

-----------------------------------------------------------------------------
(* Python values *)

None == "None"
NaN == "NaN"

\* Decimal(str(value)) for the printed numbers of the model: equal decimals
\* get the same canonical form whatever their representation.
DecimalOf(value) ==
    CASE value = "100.00" -> "100"
      [] value = "100.0"  -> "100"
      [] value = "5.00"   -> "5"
      [] OTHER            -> value

\* Decimal(str(value)) raises InvalidOperation on a text that is no number
DecimalRaises(value) == value \in {"n/a"}

\* Python's != on two values that are None or Decimal: a Decimal NaN is
\* unequal to everything, itself included.
PyNotEqual(a, b) == a = NaN \/ b = NaN \/ a # b

Range(s) == {s[i] : i \in DOMAIN s}

SeqsUpTo(S, n) == UNION {[1..k -> S] : k \in 0..n}

-----------------------------------------------------------------------------
(* Companies, as the dictionaries get_companies_with_yf_tickers builds *)

CompanyDicts ==
    { [id |-> 1, name |-> "Acme", ticker |-> "ACME", nse_code |-> "ACME", bse_code |-> None],
      [id |-> 2, name |-> "Bolt", ticker |-> "500002", nse_code |-> None, bse_code |-> "500002"] }

\* CSV_DATE = date.today(); the tables also hold rows of an earlier day
CsvDates == {"2024-01-03"}
EarlierDate == "2024-01-02"

\* company['nse_code'] or company['bse_code']
CodeOfDict(company) ==
    IF company.nse_code \notin {None, ""} THEN company.nse_code ELSE company.bse_code

-----------------------------------------------------------------------------
(* 8.2_daily_major_holders.py *)

HolderFields ==
    {"holder_name", "holder_type", "shares_held", "percentage_held", "value", "currency"}

HolderNumericFields == {"shares_held", "percentage_held", "value"}

holder(name, type, shares, pct) ==
    [holder_name |-> name, holder_type |-> type, shares_held |-> shares,
     percentage_held |-> pct, value |-> None, currency |-> "INR"]

\* The records fetch_major_holders_yf can hand over: a full institutional
\* record, the same holder with a missing share count and a new percentage,
\* and a holder whose index label printed as "nan".
HolderRecords ==
    { holder("Alpha", "institution", "100", "5"),
      holder("Alpha", "institution", None, "6"),
      holder("nan", "individual", None, "5") }

\* key = f"{holder_data['holder_name']}_{holder_data['holder_type']}"
HolderKey(h) == h.holder_name \o "_" \o h.holder_type

\* the rows of company_id on csv_date, as ids
HolderRowsOf(table, company_id, csv_date) ==
    {i \in DOMAIN table : table[i].company_id = company_id /\ table[i].date = csv_date}

\* One possible result of get_existing_major_holders: a dictionary from key to
\* the row read last for that key.  The query has no ORDER BY, so when several
\* rows carry one key any of them may be the last.
ExistingMajorHolders(table, company_id, csv_date) ==
    LET ids  == HolderRowsOf(table, company_id, csv_date)
        keys == {HolderKey(table[i]) : i \in ids}
    IN  {f \in [keys -> ids] : \A k \in keys : HolderKey(table[f[k]]) = k}

\* get_existing_major_holders: the dictionary, or {} when the query raised
\* (the exception is logged and swallowed)
get_existing_major_holders(table, company_id, csv_date, query_ok) ==
    IF query_ok THEN ExistingMajorHolders(table, company_id, csv_date) ELSE {<<>>}

\* compare_major_holders: True when some compared field differs.
compare_major_holders(new_data, existing_data) ==
    \E field \in HolderFields :
        IF field \in HolderNumericFields
        THEN LET new_val == new_data[field]
                 existing_val == existing_data[field]
             IN  \* the conversions sit in one try: when the first raises neither
                 \* value is converted, when the second raises only the first is
                 IF new_val # None /\ DecimalRaises(new_val)
                 THEN PyNotEqual(new_val, existing_val)
                 ELSE IF existing_val # None /\ DecimalRaises(existing_val)
                 THEN PyNotEqual(DecimalOf(new_val), existing_val)
                 ELSE PyNotEqual(DecimalOf(new_val), DecimalOf(existing_val))
        ELSE new_data[field] # existing_data[field]

\* the update branch: setattr for every field of holder_data, then the stamp
UpdateHolderRow(row, holder_data, csv_date) ==
    [f \in DOMAIN row |->
        IF f \in HolderFields THEN holder_data[f]
        ELSE IF f = "last_modified" THEN csv_date
        ELSE row[f]]

\* NewHolderRow with the last_modified argument of MajorHolder(...) lost: the
\* nullable column stays NULL
NewHolderRowUnstamped(id, company, holder_data, csv_date) ==
    [id |-> id, company_id |-> company.id, company_code |-> CodeOfDict(company),
     company_name |-> company.name, date |-> csv_date,
     holder_name |-> holder_data.holder_name, holder_type |-> holder_data.holder_type,
     shares_held |-> holder_data.shares_held,
     percentage_held |-> holder_data.percentage_held,
     value |-> holder_data.value, currency |-> holder_data.currency,
     last_modified |-> None]

\* the insert branch: MajorHolder(...)
NewHolderRow(id, company, holder_data, csv_date) ==
    [id |-> id, company_id |-> company.id, company_code |-> CodeOfDict(company),
     company_name |-> company.name, date |-> csv_date,
     holder_name |-> holder_data.holder_name, holder_type |-> holder_data.holder_type,
     shares_held |-> holder_data.shares_held,
     percentage_held |-> holder_data.percentage_held,
     value |-> holder_data.value, currency |-> holder_data.currency,
     last_modified |-> csv_date]

\* HandleHolder with the else of "if key in existing_data" lost: a changed
\* record updates its row and is inserted as well.
HandleHolderNoElse(st, snapshot, existing, company, holder_data, csv_date) ==
    LET key == HolderKey(holder_data)
        upd == IF key \in DOMAIN existing
                  /\ compare_major_holders(holder_data, snapshot[existing[key]])
               THEN [st EXCEPT
                       !.table[existing[key]] =
                           UpdateHolderRow(st.table[existing[key]], holder_data, csv_date),
                       !.updated_count = @ + 1,
                       !.handled = Append(@, "updated")]
               ELSE st
    IN  IF key \in DOMAIN existing
           /\ ~compare_major_holders(holder_data, snapshot[existing[key]])
        THEN [st EXCEPT !.handled = Append(@, "unchanged")]
        ELSE [upd EXCEPT
                !.table = Append(@, NewHolderRow(Len(upd.table) + 1, company, holder_data, csv_date)),
                !.inserted_count = @ + 1,
                !.handled = Append(@, "inserted")]

\* One iteration of the for loop of insert_major_holders.  st is the session's
\* view of the table with the counters; snapshot is the table existing_data
\* was read from, existing the key -> id dictionary.
HandleHolder(st, snapshot, existing, company, holder_data, csv_date) ==
    LET key == HolderKey(holder_data) IN
    IF key \in DOMAIN existing
    THEN IF compare_major_holders(holder_data, snapshot[existing[key]])
         THEN [st EXCEPT
                 !.table[existing[key]] =
                     UpdateHolderRow(st.table[existing[key]], holder_data, csv_date),
                 !.updated_count = @ + 1,
                 !.handled = Append(@, "updated")]
         ELSE [st EXCEPT !.handled = Append(@, "unchanged")]
    ELSE [st EXCEPT
            !.table = Append(@, NewHolderRow(Len(st.table) + 1, company, holder_data, csv_date)),
            !.inserted_count = @ + 1,
            !.handled = Append(@, "inserted")]

RECURSIVE HolderLoop(_, _, _, _, _, _, _)
HolderLoop(st, snapshot, existing, company, holders_data, csv_date, i) ==
    IF i > Len(holders_data) THEN st
    ELSE HolderLoop(HandleHolder(st, snapshot, existing, company, holders_data[i], csv_date),
                    snapshot, existing, company, holders_data, csv_date, i + 1)

\* insert_major_holders(session, company, holders_data, csv_date): the whole
\* call.  The commit can fail; then the session is rolled back and the
\* exception is raised again.  After a query for the existing rows that raised
\* the session may refuse the commit or, when the failure left it usable (the
\* connection could not be had at that moment), carry it out.
insert_major_holders(company, holders_data, csv_date) ==
    \E query_ok \in BOOLEAN :
    \E existing \in get_existing_major_holders(major_holders, company.id, csv_date, query_ok) :
    \E commit_ok \in BOOLEAN :
        LET st0 == [table |-> major_holders, inserted_count |-> 0,
                    updated_count |-> 0, handled |-> <<>>]
            st  == HolderLoop(st0, major_holders, existing, company, holders_data, csv_date, 1)
            wrote == st.inserted_count > 0 \/ st.updated_count > 0
        IN  /\ Len(calls) < MaxCalls
            /\ \A c \in Range(calls) : c.kind = "holders"
            /\ commit_ok \/ wrote
            /\ major_holders' = IF commit_ok THEN st.table ELSE major_holders
            /\ before' = major_holders
            /\ calls' = Append(calls,
                   [kind |-> "holders", company_id |-> company.id, csv_date |-> csv_date,
                    incoming |-> holders_data, read_ok |-> query_ok,
                    outcome |-> IF commit_ok THEN "returned" ELSE "raised",
                    committed |-> commit_ok /\ wrote,
                    inserted_count |-> st.inserted_count,
                    updated_count |-> st.updated_count,
                    handled |-> st.handled])
            /\ UNCHANGED <<financial_statements, price_vars, action_vars, later_vars>>

CallMajorHolders ==
    \E company \in CompanyDicts, csv_date \in CsvDates :
    \E holders_data \in SeqsUpTo(HolderRecords, MaxIncoming) :
        insert_major_holders(company, holders_data, csv_date)

-----------------------------------------------------------------------------

(* 6.2_daily_financial_statements.py *)

StatementKeyFields == {"statement_type", "period", "year", "quarter"}

\* key_fields of compare_financial_statements
StatementTrackedFields ==
    {"total_revenue", "gross_profit", "operating_income", "net_income", "eps",
     "total_assets", "total_liabilities", "total_equity", "cash_and_equivalents",
     "total_debt", "operating_cash_flow", "financing_cash_flow", "free_cash_flow"}

\* the columns of FinancialStatement a statement dictionary can name
StatementColumns == StatementKeyFields \cup StatementTrackedFields \cup {"investing_cash_flow"}

\* an income statement as fetch_financial_statements_yf builds it
income(period, year, quarter, revenue, net) ==
    [statement_type |-> "income", period |-> period, year |-> year, quarter |-> quarter,
     total_revenue |-> revenue, gross_profit |-> None, operating_income |-> None,
     net_income |-> net, eps |-> None]

\* a balance sheet as fetch_financial_statements_yf builds it
balance(period, year, quarter, assets) ==
    [statement_type |-> "balance", period |-> period, year |-> year, quarter |-> quarter,
     total_assets |-> assets, total_liabilities |-> None, total_equity |-> None,
     cash_and_equivalents |-> None, total_debt |-> None]

StatementRecords ==
    { income("annual", "2023", None, "100", "10"),
      income("annual", "2023", None, None, "12"),
      balance("quarterly", "2023", "4", "100.00") }

\* dict.get(field)
Get(d, field) == IF field \in DOMAIN d THEN d[field] ELSE None

\* to_decimal of compare_financial_statements
to_decimal(value) ==
    IF value = None THEN None
    ELSE IF DecimalRaises(value) THEN None
    ELSE DecimalOf(value)

\* key = f"{statement_type}_{period}_{year}_{quarter}"
StatementKey(s) ==
    s.statement_type \o "_" \o s.period \o "_" \o s.year \o "_" \o s.quarter

StatementRowsOf(table, company_id, csv_date) ==
    {i \in DOMAIN table : table[i].company_id = company_id /\ table[i].date = csv_date}

\* One possible result of get_existing_financial_statements (no ORDER BY:
\* of several rows with one key any may be the one the dictionary keeps).
ExistingFinancialStatements(table, company_id, csv_date) ==
    LET ids  == StatementRowsOf(table, company_id, csv_date)
        keys == {StatementKey(table[i]) : i \in ids}
    IN  {f \in [keys -> ids] : \A k \in keys : StatementKey(table[f[k]]) = k}

\* get_existing_financial_statements: the dictionary, or {} when the query
\* raised (the exception is logged and swallowed)
get_existing_financial_statements(table, company_id, csv_date, query_ok) ==
    IF query_ok THEN ExistingFinancialStatements(table, company_id, csv_date) ELSE {<<>>}

\* compare_financial_statements: True when some tracked field differs.
compare_financial_statements(new_data, existing_data) ==
    \E field \in StatementTrackedFields :
        PyNotEqual(to_decimal(Get(new_data, field)), to_decimal(Get(existing_data, field)))

\* the update branch: setattr for every field stmt_data names, then the stamp
UpdateStatementRow(row, stmt_data, csv_date) ==
    [f \in DOMAIN row |->
        IF f \in DOMAIN stmt_data /\ f \in StatementColumns THEN stmt_data[f]
        ELSE IF f = "last_modified" THEN csv_date
        ELSE row[f]]

\* the insert branch: FinancialStatement(...)
NewStatementRow(id, company, stmt_data, csv_date) ==
    [f \in {"id", "company_id", "company_code", "company_name", "date", "last_modified"}
           \cup StatementColumns |->
        CASE f = "id"            -> id
          [] f = "company_id"    -> company.id
          [] f = "company_code"  -> CodeOfDict(company)
          [] f = "company_name"  -> company.name
          [] f = "date"          -> csv_date
          [] f = "last_modified" -> csv_date
          [] f \in StatementKeyFields -> stmt_data[f]
          [] f \in StatementTrackedFields -> Get(stmt_data, f)
          [] OTHER               -> None]

\* One iteration of the for loop of insert_financial_statements.
HandleStatement(st, snapshot, existing, company, stmt_data, csv_date) ==
    LET key == StatementKey(stmt_data) IN
    IF key \in DOMAIN existing
    THEN IF compare_financial_statements(stmt_data, snapshot[existing[key]])
         THEN [st EXCEPT
                 !.table[existing[key]] =
                     UpdateStatementRow(st.table[existing[key]], stmt_data, csv_date),
                 !.updated_count = @ + 1,
                 !.handled = Append(@, "updated")]
         ELSE [st EXCEPT !.handled = Append(@, "unchanged")]
    ELSE [st EXCEPT
            !.table = Append(@, NewStatementRow(Len(st.table) + 1, company, stmt_data, csv_date)),
            !.inserted_count = @ + 1,
            !.handled = Append(@, "inserted")]

RECURSIVE StatementLoop(_, _, _, _, _, _, _)
StatementLoop(st, snapshot, existing, company, statements_data, csv_date, i) ==
    IF i > Len(statements_data) THEN st
    ELSE StatementLoop(
             HandleStatement(st, snapshot, existing, company, statements_data[i], csv_date),
             snapshot, existing, company, statements_data, csv_date, i + 1)

\* insert_financial_statements(session, company, statements_data, csv_date)
insert_financial_statements(company, statements_data, csv_date) ==
    \E query_ok \in BOOLEAN :
    \E existing \in get_existing_financial_statements(financial_statements, company.id,
                                                       csv_date, query_ok) :
    \E commit_ok \in BOOLEAN :
        LET st0 == [table |-> financial_statements, inserted_count |-> 0,
                    updated_count |-> 0, handled |-> <<>>]
            st  == StatementLoop(st0, financial_statements, existing, company,
                                 statements_data, csv_date, 1)
            wrote == st.inserted_count > 0 \/ st.updated_count > 0
        IN  /\ Len(calls) < MaxCalls
            /\ \A c \in Range(calls) : c.kind = "statements"
            /\ commit_ok \/ wrote
            /\ financial_statements' = IF commit_ok THEN st.table ELSE financial_statements
            /\ before' = financial_statements
            /\ calls' = Append(calls,
                   [kind |-> "statements", company_id |-> company.id, csv_date |-> csv_date,
                    incoming |-> statements_data, read_ok |-> query_ok,
                    outcome |-> IF commit_ok THEN "returned" ELSE "raised",
                    committed |-> commit_ok /\ wrote,
                    inserted_count |-> st.inserted_count,
                    updated_count |-> st.updated_count,
                    handled |-> st.handled])
            /\ UNCHANGED <<major_holders, price_vars, action_vars, later_vars>>

CallFinancialStatements ==
    \E company \in CompanyDicts, csv_date \in CsvDates :
    \E statements_data \in SeqsUpTo(StatementRecords, MaxIncoming) :
        insert_financial_statements(company, statements_data, csv_date)

-----------------------------------------------------------------------------
(* 2.3_daily_prices.py *)

\* range(3): download attempts per batch
MaxAttempts == 3

\* str(code).strip() and .lower() on the strings of the model
Strip(str) == CASE str = " " -> "" [] str = " nan " -> "nan" [] OTHER -> str

Lower(str) ==
    CASE str \in {"NaN", "NAN", "Nan"} -> "nan"
      [] str = "ACME" -> "acme"
      [] OTHER -> str

is_valid_code(code) ==
    /\ code # None
    /\ code # NaN
    /\ Lower(Strip(code)) # "nan"
    /\ Strip(code) # ""

\* bse_code_str.split(".")[0]
BeforeDot(str) == CASE str = "500002.0" -> "500002" [] OTHER -> str

\* get_yfinance_ticker(company): (ticker, exchange)
get_yfinance_ticker(company) ==
    IF is_valid_code(company.nse_code)
    THEN [ticker |-> company.nse_code \o ".NS", exchange |-> "NSE"]
    ELSE IF is_valid_code(company.bse_code)
    THEN [ticker |-> BeforeDot(company.bse_code) \o ".BO", exchange |-> "BSE"]
    ELSE [ticker |-> None, exchange |-> None]

\* The rows of the companies table: an NSE company, a BSE company whose code
\* went through a float, a company whose NSE code is the text "nan", and one
\* whose NSE code is a blank and which has no BSE code.
CompanyRows ==
    << [id |-> 1, name |-> "Acme", nse_code |-> "ACME", bse_code |-> None],
       [id |-> 2, name |-> "Bolt", nse_code |-> None, bse_code |-> "500002.0"],
       [id |-> 3, name |-> "Crest", nse_code |-> "nan", bse_code |-> "500003"],
       [id |-> 4, name |-> "Dune", nse_code |-> " ", bse_code |-> None] >>

\* session.query(Company).filter((nse_code != None) | (bse_code != None)).all()
CompaniesWithCode ==
    SelectSeq(CompanyRows, LAMBDA c : c.nse_code # None \/ c.bse_code # None)

\* company.nse_code if company.nse_code else company.bse_code
CompanyCode(company) ==
    IF company.nse_code \notin {None, ""} THEN company.nse_code ELSE company.bse_code

\* company_ticker_map: the companies that have a ticker, in query order
RECURSIVE TickerMap(_, _)
TickerMap(companies, i) ==
    IF i > Len(companies) THEN <<>>
    ELSE LET company == companies[i]
             t == get_yfinance_ticker(company)
             rest == TickerMap(companies, i + 1)
         IN  IF t.ticker # None
             THEN <<[company |-> company, ticker |-> t.ticker, exchange |-> t.exchange,
                     company_code |-> CompanyCode(company)]>> \o rest
             ELSE rest

\* the day's bars the provider can return for a ticker
bar(open, close, volume) ==
    [Open |-> open, High |-> close, Low |-> open, Close |-> close, Volume |-> volume,
     AdjClose |-> close]

Bars == { bar("100", "100", "500"), bar("100", "101", "600"), bar(NaN, NaN, NaN) }

PriceDates == {"2024-01-03"}

\* what a downloaded frame can hold for one ticker: no column at all, one
\* dated row, or two rows of one day (the provider now and then repeats the
\* running day's row)
NoColumn == [kind |-> "absent", rows |-> <<>>]

TickerFrames ==
    {NoColumn} \cup
    {[kind |-> "rows", rows |-> <<[date |-> d, row |-> b]>>] : d \in PriceDates, b \in Bars}
    \cup
    {[kind |-> "rows", rows |-> <<[date |-> d, row |-> bar("100", "100", "500")],
                                 [date |-> d, row |-> bar("100", "101", "600")]>>] :
         d \in PriceDates}

\* yf.download(tickers, group_by='ticker'): the frames the provider can return
\* for a list of tickers.  The job takes a frame downloaded for one ticker to
\* have flat columns and one downloaded for several to be grouped by ticker.
Downloads(tickers) ==
    { [shape |-> IF Len(tickers) = 1 THEN "flat" ELSE "grouped", data |-> f] :
          f \in [Range(tickers) -> TickerFrames] }

Unbound == [shape |-> "unbound"]

\* df.empty
FrameEmpty(df) == \A t \in DOMAIN df.data : df.data[t].kind = "absent"

\* get_scalar(val): NaN becomes None
get_scalar(val) == IF val = None \/ val = NaN THEN None ELSE val

\* the Price object built from one row (lines 142-150)
PriceObject(entry, date, row) ==
    [company_code |-> entry.company_code, date |-> date,
     company_name |-> entry.company.name, company_id |-> entry.company.id,
     open |-> get_scalar(row.Open), high |-> get_scalar(row.High),
     low |-> get_scalar(row.Low), close |-> get_scalar(row.Close),
     volume |-> get_scalar(row.Volume), adj_close |-> get_scalar(row.AdjClose),
     last_modified |-> None]

PriceTrackedFields == {"open", "high", "low", "close", "volume", "adj_close"}

\* the any([...]) test of lines 151-157
HasAnyValue(price) ==
    \E f \in {"open", "high", "low", "close", "volume"} : price[f] # None

PriceKey(p) == <<p.company_code, p.date>>

\* company_df for one ticker of the batch (lines 119-125): "raises" when the
\* frame at hand is a grouped one used as a whole, whose row['Open'] lookup
\* fails; that happens only when a frame of an earlier batch is still in df.
CompanyFrame(tickers, df, ticker) ==
    IF Len(tickers) = 1
    THEN IF df.shape = "flat"
         THEN (CHOOSE fr \in {df.data[t] : t \in DOMAIN df.data} : TRUE)
         ELSE IF FrameEmpty(df) THEN NoColumn ELSE [kind |-> "raises", rows |-> <<>>]
    ELSE IF df.shape = "grouped" /\ ticker \in DOMAIN df.data
         THEN df.data[ticker]
         ELSE NoColumn

\* The per-ticker loop of lines 117-158 from ticker number k on.  acc carries
\* the flags as committed so far, the price objects, all_keys and whether the
\* loop has raised.
RECURSIVE TickerLoop(_, _, _, _)
TickerLoop(batch, df, k, acc) ==
    IF k > Len(batch) \/ acc.raised THEN acc
    ELSE LET entry == batch[k]
             tickers == [n \in 1..Len(batch) |-> batch[n].ticker]
             frame == CompanyFrame(tickers, df, entry.ticker)
             id == entry.company.id
         IN  IF frame.kind = "absent"
             THEN TickerLoop(batch, df, k + 1,
                      [acc EXCEPT !.flags[id] = 1, !.batch_no_data = @ + 1])
             ELSE IF frame.kind = "raises"
             THEN [acc EXCEPT !.flags[id] = 0, !.raised = TRUE]
             ELSE LET objs == [n \in 1..Len(frame.rows) |->
                                  PriceObject(entry, frame.rows[n].date, frame.rows[n].row)]
                  IN  TickerLoop(batch, df, k + 1,
                          [acc EXCEPT
                              !.flags[id] = 0,
                              !.all_keys = @ \cup {PriceKey(objs[n]) : n \in 1..Len(objs)},
                              !.price_objects = @ \o SelectSeq(objs, HasAnyValue)])

\* existing_keys: the keys of all_keys the table holds (lines 160-167)
ExistingKeys(table, all_keys) ==
    {PriceKey(table[n]) : n \in DOMAIN table} \cap all_keys

\* new_prices without the filter on existing_keys
NewPricesUnfiltered(price_objects, existing_keys) == price_objects

\* new_prices (line 169)
NewPrices(price_objects, existing_keys) ==
    SelectSeq(price_objects, LAMBDA p : PriceKey(p) \notin existing_keys)

\* a bulk insert that leaves out the objects whose key the table holds
BulkSaveSkippingHeldKeys(table, objects) ==
    table \o SelectSeq(objects, LAMBDA p :
                 \A n \in DOMAIN table : PriceKey(table[n]) # PriceKey(p))

\* session.bulk_save_objects(new_prices) and the commit: every object becomes
\* a row; the table has no unique constraint that could refuse one
bulk_save_objects(table, objects) == table \o objects

\* downloads, sleeps and returned follow the retry loop of the current batch:
\* the calls of yf.download, the time.sleep(10) calls, and whether a call
\* returned; pauses counts the time.sleep(1.5) calls of the run
PriceIdle ==
    [pc |-> "idle", map |-> <<>>, batch_size |-> 1, i |-> 0, attempt |-> 0,
     df |-> Unbound, exhausted |-> FALSE, count |-> 0, no_data_count |-> 0,
     downloads |-> 0, sleeps |-> 0, returned |-> FALSE, pauses |-> 0]

\* lines 75-93: a run starts, reads the companies and builds the ticker map
StartPriceRun(batch_size) ==
    /\ price_run.pc \in {"idle", "done", "aborted"}
    /\ price_runs < MaxPriceRuns
    /\ price_runs' = price_runs + 1
    /\ LET map == TickerMap(CompaniesWithCode, 1) IN
       price_run' = [PriceIdle EXCEPT
                        !.pc = IF map = <<>> THEN "finish" ELSE "download",
                        !.map = map, !.batch_size = batch_size]
    /\ UNCHANGED <<prices, yf_not_found, price_last, reconcile_vars, action_vars, later_vars>>

\* batch = company_ticker_map[i:i+batch_size]
CurrentBatch ==
    SubSeq(price_run.map, price_run.i + 1,
           IF price_run.i + price_run.batch_size < Len(price_run.map)
           THEN price_run.i + price_run.batch_size ELSE Len(price_run.map))

\* DownloadReturned with the break of line 106 lost: the loop goes on to its
\* next pass while passes are left
DownloadReturnedNoBreak(run, df) ==
    [run EXCEPT !.df = df, !.downloads = @ + 1, !.returned = TRUE,
                !.attempt = @ + 1,
                !.pc = IF run.attempt + 1 = MaxAttempts THEN "pause" ELSE "download"]

\* lines 103-106: yf.download returned df; the loop is left
DownloadReturned(run, df) ==
    [run EXCEPT !.df = df, !.downloads = @ + 1, !.returned = TRUE, !.pc = "pause"]

\* lines 107-110: yf.download raised; the failure is logged, the job sleeps
\* 10 s and the loop goes to its next pass, or ends after the third
DownloadRaised(run) ==
    [run EXCEPT !.downloads = @ + 1, !.sleeps = @ + 1,
                !.attempt = @ + 1,
                !.pc = IF run.attempt + 1 = MaxAttempts THEN "pause" ELSE "download",
                !.exhausted = (run.attempt + 1 = MaxAttempts)]

\* lines 101-110, one pass of the retry loop: the download returns a frame
\* and the loop is left, or it raises and the job sleeps 10 s
DownloadAttempt ==
    /\ price_run.pc = "download"
    /\ LET tickers == [n \in 1..Len(CurrentBatch) |-> CurrentBatch[n].ticker] IN
       \/ \E df \in Downloads(tickers) : price_run' = DownloadReturned(price_run, df)
       \/ price_run' = DownloadRaised(price_run)
    /\ UNCHANGED <<prices, yf_not_found, price_runs, price_last, reconcile_vars, action_vars, later_vars>>

\* Paused with the sleep inside the loop's success branch: a batch whose
\* attempts all failed goes on without it
PausedOnSuccessOnly(run) ==
    [run EXCEPT !.pc = "process", !.pauses = IF run.returned THEN @ + 1 ELSE @]

\* line 111, after the retry loop however it ended
Paused(run) == [run EXCEPT !.pc = "process", !.pauses = @ + 1]

\* line 111: time.sleep(1.5)
InterBatchSleep ==
    /\ price_run.pc = "pause"
    /\ price_run' = Paused(price_run)
    /\ UNCHANGED <<prices, yf_not_found, price_runs, price_last, reconcile_vars, action_vars, later_vars>>

\* Lines 113-178 for the current batch: the per-ticker loop with its flag
\* commits, the existence query, the bulk insert and its commit.  A name that
\* was never bound, a failed row lookup or a failed insert or commit is not
\* caught anywhere: the exception leaves fetch_latest_prices.
ProcessBatch ==
    /\ price_run.pc = "process"
    /\ \E storage_ok \in BOOLEAN :
       LET batch == CurrentBatch
           df == price_run.df
           acc0 == [flags |-> yf_not_found, all_keys |-> {}, price_objects |-> <<>>,
                    batch_no_data |-> 0, raised |-> FALSE]
           acc == IF df = Unbound THEN [acc0 EXCEPT !.raised = TRUE]
                  ELSE TickerLoop(batch, df, 1, acc0)
           existing_keys == ExistingKeys(prices, acc.all_keys)
           new_prices == IF acc.raised THEN <<>>
                         ELSE NewPrices(acc.price_objects, existing_keys)
           written == IF storage_ok THEN new_prices ELSE <<>>
           result == IF df = Unbound THEN "NameError"
                     ELSE IF acc.raised THEN "KeyError"
                     ELSE IF ~storage_ok THEN "storage_error"
                     ELSE "ok"
           next_i == price_run.i + price_run.batch_size
       IN  /\ storage_ok \/ (~acc.raised /\ new_prices # <<>>)
           /\ yf_not_found' = acc.flags
           /\ prices' = bulk_save_objects(prices, written)
           /\ price_last' =
                  [run |-> price_runs, batch |-> price_run.i \div price_run.batch_size + 1,
                   exhausted |-> price_run.exhausted, result |-> result,
                   prices_before |-> prices, flags_before |-> yf_not_found,
                   price_objects |-> acc.price_objects, new_prices |-> written]
           /\ price_run' =
                  IF result # "ok"
                  THEN [price_run EXCEPT !.pc = "aborted"]
                  ELSE [price_run EXCEPT
                           !.pc = IF next_i < Len(price_run.map) THEN "download" ELSE "finish",
                           !.i = next_i, !.attempt = 0, !.exhausted = FALSE,
                           !.downloads = 0, !.sleeps = 0, !.returned = FALSE,
                           !.count = @ + Len(new_prices),
                           !.no_data_count = @ + acc.batch_no_data]
    /\ UNCHANGED <<price_runs, reconcile_vars, action_vars, later_vars>>

\* lines 179-183: the closing log lines and session.close()
FinishPriceRun ==
    /\ price_run.pc = "finish"
    /\ price_run' = [price_run EXCEPT !.pc = "done"]
    /\ UNCHANGED <<prices, yf_not_found, price_runs, price_last, reconcile_vars, action_vars, later_vars>>

\* fetch_latest_prices(limit=None, batch_size=...)
BatchSizes == {1, 2}

\* rows an earlier run of the day stored
EarlierPrices ==
    { <<>>,
      <<PriceObject([company |-> CompanyRows[1], company_code |-> "ACME"],
                    "2024-01-03", bar("100", "100", "500"))>> }

NoBatchYet ==
    [run |-> 0, batch |-> 0, exhausted |-> FALSE, result |-> "none",
     prices_before |-> <<>>, flags_before |-> <<>>, price_objects |-> <<>>,
     new_prices |-> <<>>]

NoFlags == [n \in 1..Len(CompanyRows) |-> 0]

NextPrices ==
    \/ \E batch_size \in BatchSizes : StartPriceRun(batch_size)
    \/ DownloadAttempt
    \/ InterBatchSleep
    \/ ProcessBatch
    \/ FinishPriceRun

-----------------------------------------------------------------------------
(* 3.2_daily_corporate_actions.py *)

\* a split ratio above this is logged as invalid and skipped
MaxSplitRatio == 1000

\* a dividend amount above this is logged as invalid and skipped
MaxDividendAmount == 10000

\* file_date, taken from the name of today's CSV file, and the day before it
FileDates == {"2024-01-03"}

PreviousDay(date) == CASE date = "2024-01-03" -> "2024-01-02" [] OTHER -> "2024-01-01"

\* a number the provider reports, by its printed form and its value
quantity(text, value) == [text |-> text, value |-> value]

event(date, text, value) == [date |-> date, amount |-> quantity(text, value)]

\* What yf.Ticker(ticker).splits and .dividends can give for one company: the
\* call raises, there is nothing, a split on the file date, a split and a
\* dividend on the file date, or an out-of-range split on the file date with
\* a split of the day before.
FetchResults ==
    { [raised |-> TRUE, splits |-> <<>>, dividends |-> <<>>],
      [raised |-> FALSE, splits |-> <<>>, dividends |-> <<>>],
      [raised |-> FALSE, splits |-> <<event("2024-01-03", "2.0", 2)>>, dividends |-> <<>>],
      [raised |-> FALSE, splits |-> <<event("2024-01-03", "3.0", 3)>>,
       dividends |-> <<event("2024-01-03", "5.0", 5)>>],
      [raised |-> FALSE,
       splits |-> <<event("2024-01-02", "2.0", 2), event("2024-01-03", "2000.0", 2000)>>,
       dividends |-> <<event("2024-01-03", "0.0", 0)>>] }

\* file_date_splits (lines 162-168)
FileDateSplits(splits, file_date) ==
    SelectSeq(splits, LAMBDA e :
        /\ e.date = file_date /\ e.amount.value # 0
        /\ ~(e.amount.value <= 0 \/ e.amount.value > MaxSplitRatio))

\* file_date_dividends (lines 170-177)
FileDateDividends(dividends, file_date) ==
    SelectSeq(dividends, LAMBDA e :
        /\ e.date = file_date /\ e.amount.value # 0
        /\ ~(e.amount.value < 0 \/ e.amount.value > MaxDividendAmount))

SplitDetails(e) == e.amount.text \o ":1 split"

DividendDetails(e) == e.amount.text \o " dividend"

\* CorporateAction(company_code=..., company_name=..., date=..., type=...,
\* details=..., last_modified=file_date)
NewAction(company, company_code, date, type, details, file_date) ==
    [company_id |-> None, company_code |-> company_code, company_name |-> company.name,
     date |-> date, type |-> type, details |-> details, last_modified |-> file_date]

ActionKey(a) == <<a.company_code, a.type>>

\* existing_actions (lines 118-127): the rows of previous_date by
\* (company_code, type); when several rows share a key the query's order
\* decides which one the dictionary keeps.
ExistingActions(table, previous_date) ==
    LET ids  == {n \in DOMAIN table : table[n].date = previous_date}
        keys == {ActionKey(table[n]) : n \in ids}
    IN  {f \in [keys -> ids] : \A k \in keys : ActionKey(table[f[k]]) = k}

\* The actions lines 189-226 (splits) or 228-265 (dividends) append for one
\* company: an event is added when the baseline has no row under its key or
\* has one with other details.
RECURSIVE ActionsToAdd(_, _, _, _, _, _, _, _)
ActionsToAdd(table, existing, company, company_code, events, type, file_date, n) ==
    IF n > Len(events) THEN <<>>
    ELSE LET e == events[n]
             details == IF type = "split" THEN SplitDetails(e) ELSE DividendDetails(e)
             key == <<company_code, type>>
             rest == ActionsToAdd(table, existing, company, company_code, events, type,
                                  file_date, n + 1)
         IN  IF key \in DOMAIN existing /\ table[existing[key]].details = details
             THEN rest
             ELSE <<NewAction(company, company_code, e.date, type, details, file_date)>>
                  \o rest

\* quality_metrics, the counters the model follows
NoMetrics ==
    [total_companies |-> 0, companies_with_valid_codes |-> 0, companies_processed |-> 0,
     companies_with_changes |-> 0, companies_no_changes |-> 0, companies_api_errors |-> 0,
     new_splits |-> 0, new_dividends |-> 0, api_calls |-> 0, api_errors |-> 0,
     database_errors |-> 0]

ActionIdle ==
    [pc |-> "idle", file_date |-> None, companies |-> <<>>, k |-> 1,
     existing_actions |-> <<>>, all_actions_to_add |-> <<>>, quality_metrics |-> NoMetrics]

\* session.query(Company).filter(or_(and_(nse_code != None, nse_code != ""),
\*                                   and_(bse_code != None, bse_code != "")))
CompaniesWithNonBlankCode ==
    SelectSeq(CompanyRows, LAMBDA c :
        \/ (c.nse_code # None /\ c.nse_code # "")
        \/ (c.bse_code # None /\ c.bse_code # ""))

\* --limit: absent, or 1
Limits == {None, "1"}

\* query.all(), or query.limit(limit).all(), which may return any one company
\* since the query has no order
Limited(companies, limit) ==
    IF limit = None THEN {companies}
    ELSE {<<companies[n]>> : n \in DOMAIN companies}

\* the record of the run at hand in action_log
ThisRun == Len(action_log)

\* lines 71-135: setup, the company query and the baseline of previous_date
StartActionsRun(limit, file_date) ==
    /\ action_run.pc \in {"idle", "done", "aborted"}
    /\ Len(action_log) < MaxActionRuns
    /\ \E companies \in Limited(CompaniesWithNonBlankCode, limit) :
       \E existing \in ExistingActions(corporate_actions, PreviousDay(file_date)) :
           /\ action_run' =
                  [ActionIdle EXCEPT
                      !.pc = "companies", !.file_date = file_date,
                      !.companies = companies, !.existing_actions = existing,
                      !.quality_metrics.total_companies = Len(companies)]
           /\ action_log' = Append(action_log,
                  [file_date |-> file_date, companies |-> companies, fetched |-> <<>>,
                   table_before |-> corporate_actions, inserted |-> <<>>,
                   committed |-> FALSE, summary_logged |-> FALSE,
                   summary_printed |-> FALSE, outcome |-> "running"])
    /\ UNCHANGED <<corporate_actions, reconcile_vars, price_vars, later_vars>>

\* lines 137-277, one pass of the loop over companies
FetchCompany ==
    /\ action_run.pc = "companies"
    /\ action_run.k <= Len(action_run.companies)
    /\ LET company == action_run.companies[action_run.k]
           t == get_yfinance_ticker(company)
           m == action_run.quality_metrics
       IN  IF t.ticker = None
           THEN /\ action_run' = [action_run EXCEPT !.k = @ + 1]
                /\ UNCHANGED action_log
           ELSE \E result \in FetchResults :
                LET company_code == CompanyCode(company)
                    file_date == action_run.file_date
                    new_splits ==
                        ActionsToAdd(corporate_actions, action_run.existing_actions, company,
                                     company_code, FileDateSplits(result.splits, file_date),
                                     "split", file_date, 1)
                    new_dividends ==
                        ActionsToAdd(corporate_actions, action_run.existing_actions, company,
                                     company_code,
                                     FileDateDividends(result.dividends, file_date),
                                     "dividend", file_date, 1)
                    has_changes == new_splits # <<>> \/ new_dividends # <<>>
                    called == [m EXCEPT !.companies_with_valid_codes = @ + 1,
                                        !.api_calls = @ + 1]
                IN  /\ action_log' = [action_log EXCEPT ![ThisRun].fetched =
                                         Append(@, [ticker |-> t.ticker, result |-> result])]
                    /\ action_run' =
                           IF result.raised
                           THEN [action_run EXCEPT
                                    !.k = @ + 1,
                                    !.quality_metrics =
                                        [called EXCEPT !.api_errors = @ + 1,
                                                       !.companies_api_errors = @ + 1]]
                           ELSE [action_run EXCEPT
                                    !.k = @ + 1,
                                    !.all_actions_to_add = @ \o new_splits \o new_dividends,
                                    !.quality_metrics =
                                        [called EXCEPT
                                            !.new_splits = @ + Len(new_splits),
                                            !.new_dividends = @ + Len(new_dividends),
                                            !.companies_processed = @ + 1,
                                            !.companies_with_changes =
                                                IF has_changes THEN @ + 1 ELSE @,
                                            !.companies_no_changes =
                                                IF has_changes THEN @ ELSE @ + 1]]
    /\ UNCHANGED <<corporate_actions, reconcile_vars, price_vars, later_vars>>

\* Lines 279-302: the bulk insert and the commit.  When either fails the
\* handler rolls back, counts a database error and raises again, which ends
\* fetch_and_store_latest_corporate_actions.
BulkWrite ==
    /\ action_run.pc = "companies"
    /\ action_run.k > Len(action_run.companies)
    /\ \E storage_ok \in BOOLEAN :
       LET to_add == action_run.all_actions_to_add IN
       /\ storage_ok \/ to_add # <<>>
       /\ corporate_actions' = IF storage_ok THEN corporate_actions \o to_add
                               ELSE corporate_actions
       /\ action_run' =
              IF storage_ok THEN [action_run EXCEPT !.pc = "summary"]
              ELSE [action_run EXCEPT !.pc = "aborted",
                                      !.quality_metrics.database_errors = @ + 1]
       /\ action_log' = [action_log EXCEPT
              ![ThisRun].inserted = IF storage_ok THEN to_add ELSE <<>>,
              ![ThisRun].committed = storage_ok /\ to_add # <<>>,
              ![ThisRun].outcome = IF storage_ok THEN "running" ELSE "storage_error"]
    /\ UNCHANGED <<reconcile_vars, price_vars, later_vars>>

\* Lines 304-335: the summary.  The counts are logged first; the success rate
\* divides by companies_with_valid_codes, in the log (line 323) before the
\* printed summary starts, so with no usable ticker the ZeroDivisionError
\* comes after the logged counts and before anything is printed.
Summary ==
    /\ action_run.pc = "summary"
    /\ LET divides == action_run.quality_metrics.companies_with_valid_codes # 0 IN
       /\ action_run' = [action_run EXCEPT !.pc = IF divides THEN "analysis" ELSE "aborted"]
       /\ action_log' = [action_log EXCEPT
              ![ThisRun].summary_logged = TRUE,
              ![ThisRun].summary_printed = divides,
              ![ThisRun].outcome = IF divides THEN "running" ELSE "ZeroDivisionError"]
    /\ UNCHANGED <<corporate_actions, reconcile_vars, price_vars, later_vars>>

\* lines 337-362: the data-quality report over the table and session.close()
FinishActionsRun ==
    /\ action_run.pc = "analysis"
    /\ action_run' = [action_run EXCEPT !.pc = "done"]
    /\ action_log' = [action_log EXCEPT ![ThisRun].outcome = "returned"]
    /\ UNCHANGED <<corporate_actions, reconcile_vars, price_vars, later_vars>>

\* the row a run for the day before left: a 2:1 split of Acme
EarlierActions ==
    <<NewAction(CompanyRows[1], "ACME", "2024-01-02", "split", "2.0:1 split", "2024-01-02")>>

NextActions ==
    \/ \E limit \in Limits, file_date \in FileDates : StartActionsRun(limit, file_date)
    \/ FetchCompany
    \/ BulkWrite
    \/ Summary
    \/ FinishActionsRun

-----------------------------------------------------------------------------
(* 2.3_daily_prices.py, two runs at once *)

\* Two processes run fetch_latest_prices(limit=1) against the same database.
\* Each works in its own session: the existence query of one sees what the
\* other has committed and nothing else.
Writers == {"run1", "run2"}

WriterIdle ==
    [pc |-> "start", map |-> <<>>, df |-> Unbound, price_objects |-> <<>>,
     existing_keys |-> {}, new_prices |-> <<>>, saw_insert |-> FALSE, result |-> "none"]

NoWriters == [w \in Writers |-> WriterIdle]

\* lines 75-93 with limit=1: the query returns some one company
RaceStart(w) ==
    /\ writers[w].pc = "start"
    /\ \E found \in Limited(CompaniesWithCode, "1") :
           LET map == TickerMap(found, 1) IN
           writers' = [writers EXCEPT
                          ![w].map = map,
                          ![w].pc = IF map = <<>> THEN "done" ELSE "download",
                          ![w].result = IF map = <<>> THEN "ok" ELSE "none"]
    /\ UNCHANGED <<prices, yf_not_found, price_run, price_runs, price_last, beside_race>>

\* lines 101-111: the retry loop as a whole; it ends with a frame in df, or
\* with df still unbound after three failures
RaceDownload(w) ==
    /\ writers[w].pc = "download"
    /\ LET tickers == [n \in 1..Len(writers[w].map) |-> writers[w].map[n].ticker] IN
       \/ \E df \in Downloads(tickers) :
              writers' = [writers EXCEPT ![w].df = df, ![w].pc = "query"]
       \/ writers' = [writers EXCEPT ![w].pc = "query"]
    /\ UNCHANGED <<prices, yf_not_found, price_run, price_runs, price_last, beside_race>>

\* lines 113-169: the per-ticker loop with its flag commits, the existence
\* query and the filter
RaceQuery(w) ==
    /\ writers[w].pc = "query"
    /\ LET me == writers[w]
           acc0 == [flags |-> yf_not_found, all_keys |-> {}, price_objects |-> <<>>,
                    batch_no_data |-> 0, raised |-> FALSE]
           acc == IF me.df = Unbound THEN [acc0 EXCEPT !.raised = TRUE]
                  ELSE TickerLoop(me.map, me.df, 1, acc0)
           existing_keys == ExistingKeys(prices, acc.all_keys)
       IN  /\ yf_not_found' = acc.flags
           /\ writers' = [writers EXCEPT
                  ![w].pc = IF acc.raised THEN "aborted" ELSE "insert",
                  ![w].result = IF acc.raised THEN "NameError" ELSE "none",
                  ![w].price_objects = acc.price_objects,
                  ![w].existing_keys = existing_keys,
                  ![w].new_prices = IF acc.raised THEN <<>>
                                    ELSE NewPrices(acc.price_objects, existing_keys),
                  ![w].saw_insert = \E v \in Writers :
                                       writers[v].pc = "done" /\ writers[v].new_prices # <<>>]
    /\ UNCHANGED <<prices, price_run, price_runs, price_last, beside_race>>

\* lines 171-178: the bulk insert and its commit
RaceInsert(w) ==
    /\ writers[w].pc = "insert"
    /\ \E storage_ok \in BOOLEAN :
           /\ storage_ok \/ writers[w].new_prices # <<>>
           /\ prices' = IF storage_ok THEN bulk_save_objects(prices, writers[w].new_prices)
                        ELSE prices
           /\ writers' = [writers EXCEPT
                  ![w].pc = IF storage_ok THEN "done" ELSE "aborted",
                  ![w].result = IF storage_ok THEN "ok" ELSE "storage_error"]
    /\ UNCHANGED <<yf_not_found, price_run, price_runs, price_last, beside_race>>

NextPriceRace ==
    \E w \in Writers : RaceStart(w) \/ RaceDownload(w) \/ RaceQuery(w) \/ RaceInsert(w)

-----------------------------------------------------------------------------
(* The compare functions on their own *)

\* the values a numeric field of a fetched record or of a stored row can hold
CompareValues == {None, NaN, "0", "100", "100.00", "100.0", "100.01", "n/a"}

CompareFunctions == {"compare_financial_statements", "compare_major_holders"}

NoComparison ==
    [function |-> "none", new_val |-> None, existing_val |-> None, result |-> "none"]

\* compare_financial_statements(new_data, existing_data) on two income
\* statements that differ at most in total_revenue, or compare_major_holders
\* on two holders that differ at most in shares_held
Compare ==
    /\ comparison.result = "pending"
    /\ LET changed ==
               IF comparison.function = "compare_financial_statements"
               THEN compare_financial_statements(
                        income("annual", "2023", None, comparison.new_val, "10"),
                        income("annual", "2023", None, comparison.existing_val, "10"))
               ELSE compare_major_holders(
                        holder("Alpha", "institution", comparison.new_val, "5"),
                        holder("Alpha", "institution", comparison.existing_val, "5"))
       IN  comparison' = [comparison EXCEPT !.result = IF changed THEN "True" ELSE "False"]
    /\ UNCHANGED beside_compare

NextCompare == Compare

-----------------------------------------------------------------------------
(* 1.1_import_screener_companies_daily.py *)

\* bool(value) of None, a string or a float NaN
Truthy(value) == value \notin {None, ""}

\* pd.read_csv on one cell: an empty cell and the texts pandas lists as
\* missing become a float NaN, any other text stays as it is
ReadCsvCell(text) == IF text \in {"", "nan", "NaN"} THEN NaN ELSE text

\* clean_code without the validity test
CleanCodeUnchecked(code) == IF code \in {None, NaN} THEN code ELSE Strip(code)

clean_code(code) ==
    IF ~is_valid_code(code) THEN None
    ELSE IF Lower(Strip(code)) = "nan" THEN None
    ELSE Strip(code)

\* the cells a CSV row can carry
CsvNseCodes == {" ", "Nan", "ZETA", "ACME"}

CsvBseCodes == {"", "500002.0"}

CsvNames == {"Zeta", "Zeta Ltd"}

CsvRows ==
    [name : CsvNames, nse : CsvNseCodes, bse : CsvBseCodes, industry : {"Steel"}]

CompanyDataFields == {"name", "nse_code", "bse_code", "industry"}

\* company_data (lines 125-130)
CompanyData(row, nse_code, bse_code) ==
    [name |-> row.name, nse_code |-> nse_code, bse_code |-> bse_code,
     industry |-> row.industry]

\* session.query(Company).filter(Company.<column> == code).first(): the id of
\* the row found, 0 when there is none
FirstCompanyWith(table, column, code) ==
    LET ids == {n \in DOMAIN table : table[n][column] = code}
    IN  IF ids = {} THEN 0 ELSE CHOOSE n \in ids : \A m \in ids : n <= m

\* compare_and_update_company: changed
CompanyChanged(db_company, csv_company_dict) ==
    \E field \in CompanyDataFields : db_company[field] # csv_company_dict[field]

\* compare_and_update_company: the row after the setattr calls
UpdatedCompany(db_company, csv_company_dict) ==
    [f \in DOMAIN db_company |->
        IF f \in CompanyDataFields THEN csv_company_dict[f] ELSE db_company[f]]

\* One pass of the loop of lines 114-157.  snapshot holds existing_nse_codes
\* and existing_bse_codes as read before the loop; st.table is the table as
\* the session sees it, with the changes made to loaded rows.
HandleCsvRow(st, snapshot, row) ==
    LET nse_code == clean_code(ReadCsvCell(row.nse))
        bse_code == clean_code(ReadCsvCell(row.bse))
        company_data == CompanyData(row, nse_code, bse_code)
        is_new == ~( \/ (Truthy(nse_code) /\ nse_code \in snapshot.nse)
                     \/ (Truthy(bse_code) /\ bse_code \in snapshot.bse) )
        by_nse == IF Truthy(nse_code) THEN FirstCompanyWith(st.table, "nse_code", nse_code)
                  ELSE 0
        found == IF by_nse = 0 /\ Truthy(bse_code)
                 THEN FirstCompanyWith(st.table, "bse_code", bse_code)
                 ELSE by_nse
    IN  IF ~Truthy(nse_code) /\ ~Truthy(bse_code)
        THEN [st EXCEPT !.csv_invalid_rows = @ + 1, !.handled = Append(@, "invalid")]
        ELSE IF is_new
        THEN [st EXCEPT !.csv_valid_rows = @ + 1,
                        !.new_companies = Append(@, company_data),
                        !.handled = Append(@, "new")]
        ELSE IF found = 0
        THEN [st EXCEPT !.csv_valid_rows = @ + 1, !.handled = Append(@, "no_match")]
        ELSE IF CompanyChanged(st.table[found], company_data)
        THEN [st EXCEPT !.csv_valid_rows = @ + 1,
                        !.table[found] = UpdatedCompany(@, company_data),
                        !.updated_companies = Append(@, found),
                        !.handled = Append(@, "update")]
        ELSE [st EXCEPT !.csv_valid_rows = @ + 1, !.handled = Append(@, "unchanged")]

RECURSIVE CsvLoop(_, _, _, _)
CsvLoop(st, snapshot, df, n) ==
    IF n > Len(df) THEN st
    ELSE CsvLoop(HandleCsvRow(st, snapshot, df[n]), snapshot, df, n + 1)

\* Company(**company_data) for each of new_companies, with the ids the table
\* gives them
RECURSIVE AddCompanies(_, _, _)
AddCompanies(table, new_companies, n) ==
    IF n > Len(new_companies) THEN table
    ELSE AddCompanies(
             Append(table, [id |-> Len(table) + 1, name |-> new_companies[n].name,
                            nse_code |-> new_companies[n].nse_code,
                            bse_code |-> new_companies[n].bse_code,
                            industry |-> new_companies[n].industry]),
             new_companies, n + 1)

\* the unique indexes unique_nse_code and unique_bse_code, over non-null codes
UniqueCodes(table) ==
    \A i, j \in DOMAIN table :
        i # j => /\ (table[i].nse_code # None => table[i].nse_code # table[j].nse_code)
                 /\ (table[i].bse_code # None => table[i].bse_code # table[j].bse_code)

\* import_new_companies_from_csv(csv_file_path): the whole call.  The lists
\* of new and updated companies stay below 50 here, so the only commit is the
\* final one.  A flush that breaks a unique index, or a commit that fails,
\* reaches the outer handler: rollback, then raise.
import_new_companies_from_csv(csv) ==
    \E commit_ok \in BOOLEAN :
        LET snapshot == [nse |-> {companies_table[n].nse_code : n \in DOMAIN companies_table} \ {None, ""},
                         bse |-> {companies_table[n].bse_code : n \in DOMAIN companies_table} \ {None, ""}]
            st0 == [table |-> companies_table, new_companies |-> <<>>, updated_companies |-> <<>>,
                    csv_invalid_rows |-> 0, csv_valid_rows |-> 0, handled |-> <<>>]
            st == CsvLoop(st0, snapshot, csv, 1)
            nothing == st.new_companies = <<>> /\ st.updated_companies = <<>>
            final == AddCompanies(st.table, st.new_companies, 1)
            committed == ~nothing /\ UniqueCodes(final) /\ commit_ok
        IN  /\ commit_ok \/ (~nothing /\ UniqueCodes(final))
            /\ companies_table' = IF committed THEN final ELSE companies_table
            /\ imports' = Append(imports,
                   [csv |-> csv, table_before |-> companies_table,
                    outcome |-> IF nothing \/ committed THEN "returned" ELSE "raised",
                    committed |-> committed,
                    csv_invalid_rows |-> st.csv_invalid_rows,
                    csv_valid_rows |-> st.csv_valid_rows,
                    companies_imported |-> IF nothing THEN 0 ELSE Len(st.new_companies),
                    companies_updated |-> IF nothing THEN 0 ELSE Len(st.updated_companies),
                    handled |-> st.handled])
            /\ UNCHANGED beside_import

\* the day's call of the import, on the table earlier imports left
ImportCompanies ==
    /\ imports = <<>>
    /\ \E csv \in SeqsUpTo(CsvRows, MaxCsvRows) : import_new_companies_from_csv(csv)

\* the companies the one-time import left
ImportedCompanies ==
    << [id |-> 1, name |-> "Acme", nse_code |-> "ACME", bse_code |-> None,
        industry |-> "Steel"],
       [id |-> 2, name |-> "Bolt", nse_code |-> None, bse_code |-> "500002.0",
        industry |-> "Steel"] >>

NextImport == ImportCompanies

\* the last call of the import
LastImport == imports[Len(imports)]

-----------------------------------------------------------------------------
(* update_insider_metrics.py *)

\* batch_size of update_metrics (--batch-size is parsed and never used)
MetricsBatchSize == 500

\* a date column that is NULL; the dates of this job are numbers yyyymmdd so
\* that the filter date > last_processed_date can compare them
NoDate == 0

\* an InsiderTrade object, by the attributes _process_batch reads
trade(id, category, date, regulation, shares, value) ==
    [id |-> id, company |-> "Acme", symbol |-> "ACME", acquirer_disposer |-> "Rao",
     category |-> category, date |-> date, regulation |-> regulation,
     trade_value |-> value, shares_traded |-> shares]

\* The trades the table can hold: a purchase, a sale a day later, a trade
\* without regulation, one without category and one of no shares.
InsiderTrades ==
    { trade(1, "Promoter", 20240102, "Buy", 100, 1000),
      trade(2, "Promoter", 20240103, "SELL", 40, 500),
      trade(3, "Promoter", 20240103, None, 10, 100),
      trade(4, None, 20240103, "BUY", 10, 100),
      trade(5, "Promoter", 20240104, "ACQUISITION", 0, 0) }

\* str.upper() on the regulations of the model
Upper(str) == CASE str = "Buy" -> "BUY" [] OTHER -> str

\* all([trade.company, trade.symbol, trade.acquirer_disposer, trade.category, trade.date])
TradeHasRequiredFields(t) ==
    /\ t.company \notin {None, ""}
    /\ t.symbol \notin {None, ""}
    /\ t.acquirer_disposer \notin {None, ""}
    /\ t.category \notin {None, ""}
    /\ t.date # NoDate

\* params of the upsert statement
MetricsParams(t) ==
    LET is_buy == Upper(t.regulation) \in {"BUY", "ACQUISITION"} IN
    [company_name |-> t.company, symbol |-> t.symbol,
     acquirer_disposer |-> t.acquirer_disposer, category |-> t.category,
     total_buy_quantity |-> IF is_buy THEN t.shares_traded ELSE 0,
     total_buy_value |-> IF is_buy THEN t.trade_value ELSE 0,
     total_sell_quantity |-> IF is_buy THEN 0 ELSE t.shares_traded,
     total_sell_value |-> IF is_buy THEN 0 ELSE t.trade_value,
     last_trade_date |-> t.date]

MetricsKey(r) == <<r.company_name, r.symbol, r.acquirer_disposer, r.category>>

Greatest(a, b) == IF a >= b THEN a ELSE b

\* INSERT ... ON CONFLICT (company_name, symbol, acquirer_disposer, category)
\* DO UPDATE: the totals add up, last_trade_date is the greater one.
MetricsUpsert(rows, params) ==
    IF \E r \in rows : MetricsKey(r) = MetricsKey(params)
    THEN LET r == CHOOSE r \in rows : MetricsKey(r) = MetricsKey(params) IN
         (rows \ {r}) \cup
         {[r EXCEPT
             !.total_buy_quantity = @ + params.total_buy_quantity,
             !.total_buy_value = @ + params.total_buy_value,
             !.total_sell_quantity = @ + params.total_sell_quantity,
             !.total_sell_value = @ + params.total_sell_value,
             !.last_trade_date = Greatest(@, params.last_trade_date)]}
    ELSE rows \cup {params}

\* One iteration of the for loop of _process_batch: what became of the trade.
\* db_fails: the execute or the commit of this trade's upsert raises.
TradeOutcome(t, db_fails) ==
    IF ~TradeHasRequiredFields(t) THEN "skipped"
    ELSE IF t.regulation = None THEN "error"
    ELSE IF t.shares_traded = 0 THEN "skipped"
    ELSE IF db_fails THEN "error"
    ELSE "upserted"

\* _process_batch(trades): every trade is committed on its own; an error is
\* logged and rolled back and the loop goes on.  When the rollback raises as
\* well (rollback_raises) the outer handler logs it and the method returns
\* False with the rest of the batch untouched.
RECURSIVE process_batch(_, _, _, _, _, _)
process_batch(rows, tags, trades, failing, rollback_raises, i) ==
    IF i > Len(trades) THEN [rows |-> rows, tags |-> tags, result |-> TRUE]
    ELSE LET t   == trades[i]
             out == TradeOutcome(t, t.id \in failing)
         IN  IF out = "error" /\ rollback_raises
             THEN [rows |-> rows, tags |-> Append(tags, out), result |-> FALSE]
             ELSE process_batch(IF out = "upserted" THEN MetricsUpsert(rows, MetricsParams(t))
                                ELSE rows,
                                Append(tags, out), trades, failing, rollback_raises, i + 1)

\* SELECT MAX(last_trade_date): result[0] if result and result[0] else None
LastProcessedDate(rows) ==
    IF rows = {} THEN NoDate
    ELSE CHOOSE d \in {r.last_trade_date : r \in rows} :
             \A r \in rows : r.last_trade_date <= d

\* NewTrades with InsiderTrade.date >= last_processed_date as the filter
NewTradesFromWatermark(table, last_processed_date) ==
    IF last_processed_date # NoDate
    THEN {t \in table : t.date >= last_processed_date}
    ELSE table

\* the query for new trades: all of them, or those after last_processed_date
NewTrades(table, last_processed_date) ==
    IF last_processed_date # NoDate
    THEN {t \in table : t.date > last_processed_date}
    ELSE table

\* the orders in which a query without ORDER BY can return its rows
Orders(S) ==
    {s \in [1..Cardinality(S) -> S] : \A i, j \in DOMAIN s : s[i] = s[j] => i = j}

\* query.offset(offset).limit(batch_size).all() on rows in this order
OffsetLimit(rows, offset, limit) ==
    SubSeq(rows, offset + 1,
           IF offset + limit < Len(rows) THEN offset + limit ELSE Len(rows))

\* no trade has been added to the totals yet
NotCounted == [id \in {t.id : t \in InsiderTrades} |-> 0]

\* counted: for every trade, how often its upsert has been committed so far
MetricsIdle ==
    [pc |-> "idle", runs |-> 0, init |-> FALSE, cause |-> "none", exit_code |-> 0,
     last_processed_date |-> NoDate, new_trades_count |-> 0, offset |-> 0,
     tags |-> <<>>, batch_results |-> <<>>, rows_before |-> {}, counted |-> NotCounted]

\* main ends: return 1 from a failure path, return 0 if success else 1
MetricsExit(run, cause, code) ==
    [run EXCEPT !.pc = "exited", !.cause = cause, !.exit_code = code]

\* main, lines 278-312: the session is created and, with --init, the table
StartMetricsRun ==
    \E init \in BOOLEAN, session_ok \in BOOLEAN, create_ok \in BOOLEAN :
        LET run == [MetricsIdle EXCEPT !.runs = metrics_run.runs + 1, !.init = init,
                                       !.rows_before = metrics_table.rows,
                                       !.counted = metrics_run.counted]
        IN  /\ metrics_run.pc \in {"idle", "exited"}
            /\ metrics_run.runs < MaxMetricsRuns
            /\ (~init \/ ~session_ok) => create_ok
            /\ metrics_run' =
                   IF ~session_ok THEN MetricsExit(run, "session", 1)
                   ELSE IF init /\ ~create_ok THEN MetricsExit(run, "create_tables", 1)
                   ELSE [run EXCEPT !.pc = "update"]
            /\ metrics_table' =
                   IF session_ok /\ init /\ create_ok /\ ~metrics_table.exists
                   THEN [exists |-> TRUE, rows |-> {}]
                   ELSE metrics_table
            /\ UNCHANGED <<metric_trades, beside_metrics>>

\* update_metrics, lines 120-158: the watermark and the count of new trades
BeginMetricsUpdate ==
    \E query_ok \in BOOLEAN :
        LET last_processed_date == LastProcessedDate(metrics_table.rows)
            new_trades_count == Cardinality(NewTrades(metric_trades, last_processed_date))
        IN  /\ metrics_run.pc = "update"
            /\ metrics_run' =
                   IF ~metrics_table.exists THEN MetricsExit(metrics_run, "no_table", 1)
                   ELSE IF ~query_ok THEN MetricsExit(metrics_run, "query", 1)
                   ELSE IF new_trades_count = 0 THEN MetricsExit(metrics_run, "none", 0)
                   ELSE [metrics_run EXCEPT !.pc = "batches",
                                            !.last_processed_date = last_processed_date,
                                            !.new_trades_count = new_trades_count]
            /\ UNCHANGED <<metric_trades, metrics_table, beside_metrics>>

\* update_metrics, lines 160-184: one iteration of the while loop, and the
\* rest of main when the loop ends
ProcessMetricsBatch ==
    \E fetch_ok \in BOOLEAN, rollback_raises \in BOOLEAN :
    \E ordered \in Orders(NewTrades(metric_trades, metrics_run.last_processed_date)) :
    \E failing \in SUBSET {t.id : t \in metric_trades} :
        LET batch == OffsetLimit(ordered, metrics_run.offset, MetricsBatchSize)
            done  == process_batch(metrics_table.rows, metrics_run.tags, batch,
                                   failing, rollback_raises, 1)
            offset == metrics_run.offset + Len(batch)
            upserted == {batch[k].id : k \in {k \in 1..(Len(done.tags) - Len(metrics_run.tags)) :
                                                  done.tags[Len(metrics_run.tags) + k] = "upserted"}}
            after == [metrics_run EXCEPT !.offset = offset, !.tags = done.tags,
                                         !.batch_results = Append(@, done.result),
                                         !.counted = [id \in DOMAIN @ |->
                                                         IF id \in upserted THEN @[id] + 1
                                                         ELSE @[id]]]
        IN  /\ metrics_run.pc = "batches"
            /\ (~fetch_ok \/ failing = {}) => ~rollback_raises
            /\ ~fetch_ok => failing = {}
            /\ IF ~fetch_ok
               THEN /\ metrics_run' = MetricsExit(metrics_run, "batch_fetch", 1)
                    /\ UNCHANGED metrics_table
               ELSE IF batch = <<>>
               THEN /\ metrics_run' = MetricsExit(metrics_run, "none", 0)
                    /\ UNCHANGED metrics_table
               ELSE /\ metrics_run' = IF offset < metrics_run.new_trades_count
                                      THEN after
                                      ELSE MetricsExit(after, "none", 0)
                    /\ metrics_table' = [metrics_table EXCEPT !.rows = done.rows]
            /\ UNCHANGED <<metric_trades, beside_metrics>>

\* between two runs the import adds a trade to insidertrades
InsertTrade ==
    \E t \in InsiderTrades \ metric_trades :
        /\ metrics_run.pc \in {"idle", "exited"}
        /\ Cardinality(metric_trades) < MaxMetricTrades
        /\ metric_trades' = metric_trades \cup {t}
        /\ UNCHANGED <<metrics_table, metrics_run, beside_metrics>>

NextMetrics == StartMetricsRun \/ BeginMetricsUpdate \/ ProcessMetricsBatch \/ InsertTrade

-----------------------------------------------------------------------------
(* onetime/import_insider_trades_incremental.py *)

\* the periodic commit: if (i + 1) % 1000 == 0
CommitEvery == 1000

\* String(20) of column symbol
SymbolLength == 20

\* len() of the symbols of the model
Length(str) == CASE str = "ACMEINDUSTRIESLIMITEDEQ" -> 23 [] str = "ACME" -> 4 [] OTHER -> 0

\* process_date: None for an empty cell or "nan", the date for a text in one
\* of the three formats, None with a warning for any other text
process_date(date_str) ==
    CASE date_str \in {None, ""}       -> None
      [] Lower(date_str) = "nan"       -> None
      [] date_str = "02-Jan-2024"      -> "2024-01-02"
      [] date_str = "2024-01-02 00:00:00" -> "2024-01-02"
      [] OTHER                         -> None

\* process_datetime
process_datetime(dt_str) ==
    CASE dt_str \in {None, ""}         -> None
      [] dt_str = "03-Jan-2024 10:15"  -> "2024-01-03 10:15:00"
      [] OTHER                         -> None

\* safe_int: int(value), None when it raises
safe_int(value) ==
    CASE value = "100"  -> "100"
      [] value = " 100" -> "100"
      [] OTHER          -> None

\* a data row of the CSV file under the header row, by the cells the model
\* follows; width is the number of cells against the number of headers
csv_trade(width, symbol, date_from, acquired, broadcast, remark) ==
    [width |-> width, SYMBOL |-> symbol, DATE_FROM |-> date_from, QUANTITY |-> acquired,
     BROADCAST |-> broadcast, REMARK |-> remark]

\* A complete row, the same event with another remark, an event without its
\* date, a row whose symbol does not fit the column and a row one cell short.
CsvTradeRows ==
    { csv_trade("full", "ACME", "02-Jan-2024", "100", "03-Jan-2024 10:15", "-"),
      csv_trade("full", "ACME", "02-Jan-2024", "100", "03-Jan-2024 10:15", "revised"),
      csv_trade("full", "ACME", " ", "100", "03-Jan-2024 10:15", "-"),
      csv_trade("full", "ACMEINDUSTRIESLIMITEDEQ", "02-Jan-2024", "100", "03-Jan-2024 10:15", "-"),
      csv_trade("short", "ACME", "02-Jan-2024", "100", "03-Jan-2024 10:15", "-") }

\* What the path on the command line can be: no file, a file that cannot be
\* opened, a file without a header row, and a file with a header and rows.
CsvSources ==
    {[kind |-> k, rows |-> <<>>] : k \in {"missing", "unreadable", "empty"}}
    \cup {[kind |-> "file", rows |-> rows] : rows \in SeqsUpTo(CsvTradeRows, MaxTradeRows)}

\* --max-rows: 0 stands for the default None
MaxRowsArguments == {0, 1}

\* params of the insert statement for a row, the cells stripped; now is the
\* datetime.now() of the run
TradeParams(row, now) ==
    [symbol |-> Strip(row.SYMBOL),
     date_from |-> process_date(Strip(row.DATE_FROM)),
     security_quantity_acquired |-> safe_int(Strip(row.QUANTITY)),
     broadcast_timestamp |-> process_datetime(Strip(row.BROADCAST)),
     remark |-> Strip(row.REMARK),
     last_modified |-> now]

\* The columns of uq_insidertrades_event that differ between rows of the
\* model; name_of_acquirer_disposer, transaction_type, mode_of_acquisition,
\* regulation and security_value_acquired hold the same text in every row.
EventKeyColumns ==
    {"symbol", "date_from", "broadcast_timestamp", "security_quantity_acquired"}

\* Two rows collide on the unique constraint when every key column of both
\* is not NULL and equal: a NULL is distinct from every value and from NULL.
SameEvent(a, b) ==
    \A c \in EventKeyColumns : a[c] # None /\ b[c] # None /\ a[c] = b[c]

\* the statement is refused: the symbol is longer than its column
StatementRaises(params) == Length(params.symbol) > SymbolLength

\* INSERT ... ON CONFLICT ON CONSTRAINT uq_insidertrades_event DO UPDATE SET ...
InsertOnConflictUpdate(table, params) ==
    IF \E n \in DOMAIN table : SameEvent(table[n], params)
    THEN [n \in DOMAIN table |-> IF SameEvent(table[n], params) THEN params ELSE table[n]]
    ELSE Append(table, params)

\* The for loop over the data rows.  st.view is the table as the session
\* sees it, st.committed the table as of the last commit.
RECURSIVE TradeRowLoop(_, _, _, _, _)
TradeRowLoop(st, rows, max_rows, now, i) ==
    IF i > Len(rows) \/ (max_rows # 0 /\ i - 1 >= max_rows) THEN st
    ELSE IF rows[i].width # "full"
    THEN TradeRowLoop([st EXCEPT !.malformed = @ + 1], rows, max_rows, now, i + 1)
    ELSE LET params == TradeParams(rows[i], now)
             seen   == [st EXCEPT !.processed_rows = @ + 1]
         IN  IF StatementRaises(params)
             THEN TradeRowLoop([seen EXCEPT !.view = st.committed, !.errors = @ + 1],
                               rows, max_rows, now, i + 1)
             ELSE LET done == [seen EXCEPT !.view = InsertOnConflictUpdate(@, params),
                                           !.executed = @ + 1]
                  IN  TradeRowLoop(IF i % CommitEvery = 0
                                   THEN [done EXCEPT !.committed = done.view]
                                   ELSE done,
                                   rows, max_rows, now, i + 1)

\* import_insider_trades_incremental(csv_path, max_rows): the result of the
\* call.  Every exception is caught by the handler of line 195, which prints
\* it and rolls back; the function returns normally in each case.
ImportInsiderTrades(table, csv, max_rows, now, session_ok, commit_ok) ==
    LET st0 == [view |-> table, committed |-> table, processed_rows |-> 0,
                executed |-> 0, errors |-> 0, malformed |-> 0]
        st  == TradeRowLoop(st0, csv.rows, max_rows, now, 1)
    IN  IF ~session_ok THEN [table |-> table, outcome |-> "no session", st |-> st0]
        ELSE IF csv.kind = "unreadable" THEN [table |-> table, outcome |-> "open raised", st |-> st0]
        ELSE IF csv.kind = "empty" THEN [table |-> table, outcome |-> "no header", st |-> st0]
        ELSE IF ~commit_ok THEN [table |-> st.committed, outcome |-> "commit raised", st |-> st]
        ELSE [table |-> st.view, outcome |-> "committed", st |-> st]

\* __main__: the path is checked, then the function is called.  SystemExit
\* with a message ends the process with code 1; after the function returned
\* the script ends with code 0.
RunTradesImport ==
    \E csv \in CsvSources, max_rows \in MaxRowsArguments :
    \E session_ok \in BOOLEAN, commit_ok \in BOOLEAN :
        LET now == Len(trade_imports) + 1
            run == ImportInsiderTrades(insidertrades, csv, max_rows, now, session_ok, commit_ok)
            found == csv.kind # "missing"
        IN  /\ Len(trade_imports) < MaxTradeImports
            /\ (~found \/ ~session_ok \/ csv.kind # "file") => commit_ok
            /\ ~found => session_ok
            /\ insidertrades' = IF found THEN run.table ELSE insidertrades
            /\ trade_imports' = Append(trade_imports,
                   [csv |-> csv, max_rows |-> max_rows, session_ok |-> session_ok,
                    outcome |-> IF found THEN run.outcome ELSE "not found",
                    exit_code |-> IF found THEN 0 ELSE 1,
                    rows_before |-> Len(insidertrades),
                    rows_after |-> IF found THEN Len(run.table) ELSE Len(insidertrades),
                    executed |-> IF found THEN run.st.executed ELSE 0])
            /\ UNCHANGED beside_trades

NextTrades == RunTradesImport


-----------------------------------------------------------------------------
(* 5.2_daily_backup_prices.py *)

\* datetime.now().strftime('%Y%m%d') on the days of the model
BackupDays == {"20240102", "20240103", "20240104"}

\* backup_table = f"prices_daily_{today}"
BackupTable(today) == "prices_daily_" \o today

\* The table names of the model: the prices table, the daily backups, the
\* backups the one-time and the archived backup scripts leave, and a table
\* whose name fits the LIKE pattern without starting with prices_daily_.
TableNames ==
    {"prices", "prices_backup_daily_20240102", "prices_backup_historical_20240102",
     "prices1daily2x"} \cup {BackupTable(d) : d \in BackupDays}

\* name starts with prices_daily_
StartsWithPricesDaily(name) == name \in {BackupTable(d) : d \in BackupDays}

\* tablename LIKE 'prices_daily_%': each _ of the pattern stands for any one
\* character
LikePricesDaily(name) == StartsWithPricesDaily(name) \/ name = "prices1daily2x"

\* the rows of the prices table on an earlier day, which the backups there
\* are hold, and what the table can hold today
EarlierPriceRows == <<"row of 2024-01-02">>

PriceTableContents == {EarlierPriceRows, <<"row of 2024-01-02", "row of 2024-01-03">>}

\* DROP TABLE IF EXISTS name
DropTableIfExists(tables, name) == [n \in DOMAIN tables \ {name} |-> tables[n]]

\* CREATE TABLE name AS TABLE prices (prices exists, name does not)
CreateTableAsPrices(tables, name) ==
    [n \in DOMAIN tables \cup {name} |-> IF n = name THEN tables["prices"] ELSE tables[n]]

\* the query for the old backups that keeps no backup at all
OldBackupsWithToday(tables, backup_table) ==
    {n \in DOMAIN tables : LikePricesDaily(n)}

\* SELECT tablename FROM pg_tables WHERE tablename LIKE 'prices_daily_%'
\* AND tablename != backup_table
OldBackups(tables, backup_table) ==
    {n \in DOMAIN tables : LikePricesDaily(n) /\ n # backup_table}

RECURSIVE DropAll(_, _)
DropAll(tables, names) ==
    IF names = {} THEN tables
    ELSE LET n == CHOOSE n \in names : TRUE
         IN  DropAll(DropTableIfExists(tables, n), names \ {n})

\* backup_prices_table(): all statements run in one transaction that the
\* commit of line 47 ends.  A failed connect, a refused statement (CREATE
\* TABLE AS without a prices table is one) or a failed commit raises, and
\* nothing of the call stays.
backup_prices_table(today) ==
    \E fails \in BOOLEAN :
        LET backup_table == BackupTable(today)
            dropped == DropTableIfExists(pg_tables, backup_table)
            raised  == fails \/ "prices" \notin DOMAIN pg_tables
            created == CreateTableAsPrices(dropped, backup_table)
            old_backups == OldBackups(created, backup_table)
            after   == DropAll(created, old_backups)
        IN  /\ Len(backups) < MaxBackupRuns
            /\ pg_tables' = IF raised THEN pg_tables ELSE after
            /\ backups' = Append(backups,
                   [today |-> today, backup_table |-> backup_table,
                    outcome |-> IF raised THEN "raised" ELSE "complete",
                    tables_before |-> DOMAIN pg_tables,
                    old_backups |-> IF raised THEN {} ELSE old_backups])
            /\ UNCHANGED beside_backup

BackupPrices == \E today \in BackupDays : backup_prices_table(today)

NextBackup == BackupPrices


-----------------------------------------------------------------------------
(* onetime/3.1_onetime_corporate_actions.py *)

\* batch_size: the default, which __main__ always uses, and a small one
LoadBatchSizes == {2, 100}

\* yesterday = (datetime.now() - timedelta(days=1)).date()
LoadYesterday == "2024-01-02"

\* What yf.Ticker(ticker).splits and .dividends can give for one company,
\* after the cut to the last days when --days is given: the call raises,
\* there is nothing, a split, or a split of an earlier day with an
\* out-of-range split and a dividend.
LoadFetchResults ==
    { [raised |-> TRUE, splits |-> <<>>, dividends |-> <<>>],
      [raised |-> FALSE, splits |-> <<>>, dividends |-> <<>>],
      [raised |-> FALSE, splits |-> <<event("2024-01-03", "3.0", 3)>>, dividends |-> <<>>],
      [raised |-> FALSE,
       splits |-> <<event("2024-01-02", "2.0", 2), event("2024-01-03", "2000.0", 2000)>>,
       dividends |-> <<event("2024-01-03", "5.0", 5)>>] }

\* lines 147-160: the splits that pass the range check
ValidSplits(splits) ==
    SelectSeq(splits, LAMBDA e :
        e.amount.value # 0 /\ ~(e.amount.value <= 0 \/ e.amount.value > MaxSplitRatio))

\* lines 163-176: the dividends that pass the range check
ValidDividends(dividends) ==
    SelectSeq(dividends, LAMBDA e :
        e.amount.value # 0 /\ ~(e.amount.value < 0 \/ e.amount.value > MaxDividendAmount))

\* CorporateAction(company_id=..., company_code=..., company_name=..., date=...,
\* type=..., details=..., last_modified=yesterday)
LoadAction(company, company_code, e, type) ==
    [company_id |-> ToString(company.id), company_code |-> company_code,
     company_name |-> company.name, date |-> e.date, type |-> type,
     details |-> IF type = "split" THEN SplitDetails(e) ELSE DividendDetails(e),
     last_modified |-> LoadYesterday]

\* key = (company_code, date, type)
LoadKey(a) == <<a.company_code, a.date, a.type>>

\* action_objects of one company: its valid splits, then its valid dividends
ActionObjects(company, company_code, result) ==
    LET splits == ValidSplits(result.splits)
        dividends == ValidDividends(result.dividends)
    IN  [n \in 1..Len(splits) |-> LoadAction(company, company_code, splits[n], "split")]
        \o [n \in 1..Len(dividends) |->
                LoadAction(company, company_code, dividends[n], "dividend")]

\* new_actions_batch: the action objects whose key the table does not hold
NewActionsBatch(table, action_objects) ==
    SelectSeq(action_objects, LAMBDA a : \A n \in DOMAIN table : LoadKey(table[n]) # LoadKey(a))

\* insert(CorporateAction).values(dicts).on_conflict_do_update(
\*     index_elements=['company_code', 'date', 'type'], set_={...})
RECURSIVE UpsertActions(_, _, _)
UpsertActions(table, dicts, n) ==
    IF n > Len(dicts) THEN table
    ELSE LET d == dicts[n]
             next == IF \E m \in DOMAIN table : LoadKey(table[m]) = LoadKey(d)
                     THEN [m \in DOMAIN table |->
                              IF LoadKey(table[m]) = LoadKey(d)
                              THEN [table[m] EXCEPT !.details = d.details,
                                                    !.last_modified = d.last_modified,
                                                    !.company_name = d.company_name,
                                                    !.company_id = d.company_id]
                              ELSE table[m]]
                     ELSE Append(table, d)
         IN  UpsertActions(next, dicts, n + 1)

\* the locals of fetch_and_store_corporate_actions the model follows; i counts
\* the companies the loop has been through; appended and upserts record what
\* went into bulk_action_dicts and what each batch upsert was given
LoadIdle ==
    [pc |-> "idle", companies |-> <<>>, batch_size |-> 100, i |-> 0,
     bulk_action_dicts |-> <<>>, skipped |-> 0, count |-> 0,
     api_errors |-> 0, database_errors |-> 0,
     appended |-> <<>>, upserts |-> <<>>]

\* lines 65-114: the session, the metrics and the company query
StartLoad ==
    \E batch_size \in LoadBatchSizes, limit \in Limits :
    \E order \in Orders(Range(CompaniesWithNonBlankCode)) :
    \E companies \in Limited(order, limit) :
        /\ load_run.pc = "idle"
        /\ load_run' = [LoadIdle EXCEPT !.pc = "companies", !.companies = companies,
                                        !.batch_size = batch_size]
        /\ UNCHANGED <<corporate_actions, action_run, action_log, beside_load>>

\* lines 235-239: the handler of a failed upsert and the line after it
AfterFailedUpsert(run) ==
    [run EXCEPT !.database_errors = @ + 1, !.bulk_action_dicts = <<>>]

\* Lines 115-241, one pass of the loop over the companies.  A company without
\* ticker and a company whose fetch raises leave the pass at once (continue);
\* the others add their new actions to bulk_action_dicts, and on every
\* batch_size-th company and on the last one the buffer is upserted.
LoadCompany ==
    /\ load_run.pc = "companies"
    /\ load_run.i < Len(load_run.companies)
    /\ LET company == load_run.companies[load_run.i + 1]
           t == get_yfinance_ticker(company)
           passed == [load_run EXCEPT !.i = @ + 1]
       IN  IF t.ticker = None
           THEN load_run' = [passed EXCEPT !.skipped = @ + 1]
                /\ UNCHANGED corporate_actions
           ELSE \E result \in LoadFetchResults, query_ok \in BOOLEAN, upsert_ok \in BOOLEAN :
                LET action_objects == ActionObjects(company, CompanyCode(company), result)
                    new_actions_batch == NewActionsBatch(corporate_actions, action_objects)
                    buffer == load_run.bulk_action_dicts \o new_actions_batch
                    flush == \/ (load_run.i + 1) % load_run.batch_size = 0
                             \/ load_run.i + 1 = Len(load_run.companies)
                    upsert == flush /\ buffer # <<>>
                    collected == [passed EXCEPT !.bulk_action_dicts = buffer,
                                                !.appended = @ \o new_actions_batch,
                                                !.count = @ + 1]
                    given == [collected EXCEPT !.upserts =
                                 Append(@, [actions |-> buffer, ok |-> upsert_ok,
                                            i |-> load_run.i + 1,
                                            table_before |-> corporate_actions,
                                            errors_before |-> load_run.database_errors])]
                IN  /\ (result.raised \/ action_objects = <<>>) => query_ok
                    /\ (result.raised \/ ~query_ok \/ ~upsert) => upsert_ok
                    /\ load_run' =
                           IF result.raised THEN [passed EXCEPT !.api_errors = @ + 1]
                           ELSE IF ~query_ok
                           THEN [passed EXCEPT !.pc = "aborted", !.database_errors = @ + 1]
                           ELSE IF ~upsert THEN collected
                           ELSE IF upsert_ok THEN [given EXCEPT !.bulk_action_dicts = <<>>]
                           ELSE AfterFailedUpsert(given)
                    /\ corporate_actions' =
                           IF ~result.raised /\ query_ok /\ upsert /\ upsert_ok
                           THEN UpsertActions(corporate_actions, buffer, 1)
                           ELSE corporate_actions
    /\ UNCHANGED <<action_run, action_log, beside_load>>

\* lines 248-324: the summary, the data-quality report and session.close();
\* the success rate divides by the number of companies
FinishLoad ==
    /\ load_run.pc = "companies"
    /\ load_run.i = Len(load_run.companies)
    /\ load_run' = [load_run EXCEPT
           !.pc = IF Len(load_run.companies) = 0 THEN "aborted" ELSE "done",
           !.database_errors = IF Len(load_run.companies) = 0 THEN @ + 1 ELSE @]
    /\ UNCHANGED <<corporate_actions, action_run, action_log, beside_load>>

NextLoad == StartLoad \/ LoadCompany \/ FinishLoad

-----------------------------------------------------------------------------
(* The jobs that are not running *)

ImportAtRest ==
    /\ companies_table = ImportedCompanies
    /\ imports = <<>>

CompareAtRest == comparison = NoComparison

RaceAtRest == writers = NoWriters

TradesAtRest ==
    /\ insidertrades = <<>>
    /\ trade_imports = <<>>

MetricsAtRest ==
    /\ metric_trades = {}
    /\ metrics_table = [exists |-> FALSE, rows |-> {}]
    /\ metrics_run = MetricsIdle

BackupAtRest ==
    /\ pg_tables = [n \in {"prices"} |-> <<>>]
    /\ backups = <<>>

LoadAtRest ==
    load_run = LoadIdle

LaterJobsAtRest ==
    /\ ImportAtRest
    /\ CompareAtRest
    /\ RaceAtRest
    /\ MetricsAtRest
    /\ TradesAtRest
    /\ BackupAtRest
    /\ LoadAtRest

-----------------------------------------------------------------------------
(* The reconcilers' tables and calls *)

Company1 == CHOOSE c \in CompanyDicts : c.id = 1

\* Yesterday's runs left a row for company 1 in each table, which today's
\* calls must not take for an existing row of today.
YesterdayHolders ==
    <<NewHolderRow(1, Company1, holder("Alpha", "institution", "100", "5"), EarlierDate)>>

YesterdayStatements ==
    <<NewStatementRow(1, Company1, income("annual", "2023", None, "100", "10"), EarlierDate)>>

InitReconcile ==
    /\ major_holders = YesterdayHolders
    /\ financial_statements = YesterdayStatements
    /\ before = <<>>
    /\ calls = <<>>
    /\ prices = <<>>
    /\ yf_not_found = NoFlags
    /\ price_run = PriceIdle
    /\ price_runs = 0
    /\ price_last = NoBatchYet
    /\ corporate_actions = EarlierActions
    /\ action_run = ActionIdle
    /\ action_log = <<>>
    /\ LaterJobsAtRest

\* One behaviour follows one of the two scripts: they share no table.
NextReconcile == CallMajorHolders \/ CallFinancialStatements

\* Tables as earlier calls of today leave them: only yesterday's row, today's
\* row for company 1 as well, and two rows of today with one key (what a call
\* with the same key twice in its list leaves behind).
TodayHolderTables ==
    LET one == Append(YesterdayHolders,
                      NewHolderRow(2, Company1, holder("Alpha", "institution", "100", "5"),
                                   CHOOSE d \in CsvDates : TRUE))
        two == Append(one,
                      NewHolderRow(3, Company1, holder("Alpha", "institution", None, "6"),
                                   CHOOSE d \in CsvDates : TRUE))
    IN  {YesterdayHolders, one, two}

TodayStatementTables ==
    LET one == Append(YesterdayStatements,
                      NewStatementRow(2, Company1, income("annual", "2023", None, "100", "10"),
                                      CHOOSE d \in CsvDates : TRUE))
        two == Append(one,
                      NewStatementRow(3, Company1, income("annual", "2023", None, None, "12"),
                                      CHOOSE d \in CsvDates : TRUE))
    IN  {YesterdayStatements, one, two}

InitOneCall ==
    /\ major_holders \in TodayHolderTables
    /\ financial_statements \in TodayStatementTables
    /\ before = <<>>
    /\ calls = <<>>
    /\ prices = <<>>
    /\ yf_not_found = NoFlags
    /\ price_run = PriceIdle
    /\ price_runs = 0
    /\ price_last = NoBatchYet
    /\ corporate_actions = EarlierActions
    /\ action_run = ActionIdle
    /\ action_log = <<>>
    /\ LaterJobsAtRest

\* a single reconciler call against a table of today
OneCallMajorHolders == calls = <<>> /\ CallMajorHolders

OneCallFinancialStatements == calls = <<>> /\ CallFinancialStatements

NextOneCall == OneCallMajorHolders \/ OneCallFinancialStatements

\* The price job starts on the table an earlier run of the day left.
InitPrices ==
    /\ prices \in EarlierPrices
    /\ yf_not_found = NoFlags
    /\ price_run = PriceIdle
    /\ price_runs = 0
    /\ price_last = NoBatchYet
    /\ corporate_actions = EarlierActions
    /\ action_run = ActionIdle
    /\ action_log = <<>>
    /\ LaterJobsAtRest
    /\ major_holders = YesterdayHolders
    /\ financial_statements = YesterdayStatements
    /\ before = <<>>
    /\ calls = <<>>

\* The corporate-actions job starts on the table of the day before.
InitActions ==
    /\ corporate_actions = EarlierActions
    /\ action_run = ActionIdle
    /\ action_log = <<>>
    /\ LaterJobsAtRest
    /\ prices = <<>>
    /\ yf_not_found = NoFlags
    /\ price_run = PriceIdle
    /\ price_runs = 0
    /\ price_last = NoBatchYet
    /\ major_holders = YesterdayHolders
    /\ financial_statements = YesterdayStatements
    /\ before = <<>>
    /\ calls = <<>>

\* the reconcilers, the price job and the corporate-actions job not running
EarlyJobsAtRest ==
    /\ corporate_actions = EarlierActions
    /\ action_run = ActionIdle
    /\ action_log = <<>>
    /\ prices = <<>>
    /\ yf_not_found = NoFlags
    /\ price_run = PriceIdle
    /\ price_runs = 0
    /\ price_last = NoBatchYet
    /\ major_holders = YesterdayHolders
    /\ financial_statements = YesterdayStatements
    /\ before = <<>>
    /\ calls = <<>>

InitImport ==
    /\ companies_table = ImportedCompanies
    /\ imports = <<>>
    /\ CompareAtRest
    /\ RaceAtRest
    /\ MetricsAtRest
    /\ TradesAtRest
    /\ BackupAtRest
    /\ LoadAtRest
    /\ EarlyJobsAtRest

\* a compare function about to be called on two records
InitCompare ==
    /\ comparison \in [function : CompareFunctions, new_val : CompareValues,
                        existing_val : CompareValues, result : {"pending"}]
    /\ ImportAtRest
    /\ RaceAtRest
    /\ MetricsAtRest
    /\ TradesAtRest
    /\ BackupAtRest
    /\ LoadAtRest
    /\ EarlyJobsAtRest

\* two runs of the price job about to start on an empty prices table
InitPriceRace ==
    /\ writers = NoWriters
    /\ ImportAtRest
    /\ CompareAtRest
    /\ MetricsAtRest
    /\ TradesAtRest
    /\ BackupAtRest
    /\ LoadAtRest
    /\ EarlyJobsAtRest

\* the insider-metrics job about to run: the trades in the table, and the
\* metrics table missing or empty
InitMetrics ==
    /\ metric_trades \in {S \in SUBSET InsiderTrades : Cardinality(S) <= MaxMetricTrades}
    /\ metrics_table \in {[exists |-> FALSE, rows |-> {}], [exists |-> TRUE, rows |-> {}]}
    /\ metrics_run = MetricsIdle
    /\ ImportAtRest
    /\ CompareAtRest
    /\ RaceAtRest
    /\ TradesAtRest
    /\ BackupAtRest
    /\ LoadAtRest
    /\ EarlyJobsAtRest

\* the insider-trades import about to run on an empty table
InitTrades ==
    /\ insidertrades = <<>>
    /\ trade_imports = <<>>
    /\ ImportAtRest
    /\ CompareAtRest
    /\ RaceAtRest
    /\ MetricsAtRest
    /\ BackupAtRest
    /\ LoadAtRest
    /\ EarlyJobsAtRest

\* the daily backup about to run: any of the tables may be there
InitBackup ==
    /\ \E names \in SUBSET TableNames, rows \in PriceTableContents :
           pg_tables = [n \in names |-> IF n = "prices" THEN rows ELSE EarlierPriceRows]
    /\ backups = <<>>
    /\ ImportAtRest
    /\ CompareAtRest
    /\ RaceAtRest
    /\ TradesAtRest
    /\ MetricsAtRest
    /\ LoadAtRest
    /\ EarlyJobsAtRest

\* the one-time corporate-actions load about to run on the table of the day before
InitLoad ==
    /\ load_run = LoadIdle
    /\ ImportAtRest
    /\ CompareAtRest
    /\ RaceAtRest
    /\ TradesAtRest
    /\ MetricsAtRest
    /\ BackupAtRest
    /\ EarlyJobsAtRest

-----------------------------------------------------------------------------
(* Specifications *)

SpecReconcile == InitReconcile /\ [][NextReconcile]_vars

SpecOneCall == InitOneCall /\ [][NextOneCall]_vars

SpecPrices == InitPrices /\ [][NextPrices]_vars

SpecActions == InitActions /\ [][NextActions]_vars

SpecImport == InitImport /\ [][NextImport]_vars

SpecCompare == InitCompare /\ [][NextCompare]_vars

SpecPriceRace == InitPriceRace /\ [][NextPriceRace]_vars

SpecMetrics == InitMetrics /\ [][NextMetrics]_vars

SpecTrades == InitTrades /\ [][NextTrades]_vars

SpecBackup == InitBackup /\ [][NextBackup]_vars

SpecLoad == InitLoad /\ [][NextLoad]_vars

-----------------------------------------------------------------------------
(* Properties of the reconcilers *)

LastCall == calls[Len(calls)]

TableOf(kind) == IF kind = "holders" THEN major_holders ELSE financial_statements

KeyOf(kind, r) == IF kind = "holders" THEN HolderKey(r) ELSE StatementKey(r)

\* the fields an incoming record of this kind writes
WrittenFields(kind, r) ==
    IF kind = "holders" THEN HolderFields ELSE DOMAIN r \cap StatementColumns

\* the ids of the rows with this key among the rows of the call's company and date
RowsWithKey(c, table, key) ==
    {i \in DOMAIN table : /\ table[i].company_id = c.company_id
                          /\ table[i].date = c.csv_date
                          /\ KeyOf(c.kind, table[i]) = key}

CountTag(handled, tag) == Cardinality({i \in DOMAIN handled : handled[i] = tag})

SameArguments(a, b) ==
    /\ a.kind = b.kind
    /\ a.company_id = b.company_id
    /\ a.csv_date = b.csv_date
    /\ a.incoming = b.incoming

\* C1 (as claimed): when a call that committed is repeated with the same
\* company, csv_date and incoming list, the second call returns 0 inserted and
\* 0 updated and leaves every row of the table as it was.
C1_SecondPassIsNoOp ==
    Len(calls) >= 2 =>
        LET a == calls[Len(calls) - 1]
            b == calls[Len(calls)]
        IN  (SameArguments(a, b) /\ a.committed /\ b.outcome = "returned") =>
                /\ b.inserted_count = 0
                /\ b.updated_count = 0
                /\ TableOf(b.kind) = before

\* C2 (as claimed): when the incoming list is two records with one key and
\* different values, the table afterwards holds exactly one row for that key
\* and that row carries the second record's values.
C2_DuplicateKeyLastWins ==
    (calls # <<>> /\ LastCall.outcome = "returned" /\ Len(LastCall.incoming) = 2) =>
        LET c     == LastCall
            first == c.incoming[1]
            later == c.incoming[2]
            rows  == RowsWithKey(c, TableOf(c.kind), KeyOf(c.kind, later))
        IN  (KeyOf(c.kind, first) = KeyOf(c.kind, later) /\ first # later) =>
                /\ Cardinality(rows) = 1
                /\ \A i \in rows : \A f \in WrittenFields(c.kind, later) :
                       TableOf(c.kind)[i][f] = later[f]

\* C3 (as claimed): in a row the call updated, every field whose incoming
\* value is null keeps the non-null value the row had before the call.
C3_NullPreservingUpdate ==
    (calls # <<>> /\ LastCall.outcome = "returned") =>
        LET c     == LastCall
            table == TableOf(c.kind)
        IN  \A id \in DOMAIN before : \A i \in DOMAIN c.incoming :
                LET h == c.incoming[i] IN
                ( /\ table[id] # before[id]
                  /\ id \in RowsWithKey(c, before, KeyOf(c.kind, h))
                  /\ \A j \in DOMAIN c.incoming :
                         KeyOf(c.kind, c.incoming[j]) = KeyOf(c.kind, h) => j = i )
                => \A f \in WrittenFields(c.kind, h) :
                       (h[f] = None /\ before[id][f] # None) => table[id][f] = before[id][f]

\* C9: every incoming record of a call that returned is handled in exactly one
\* of three ways, the counters count the two kinds of write, the table grew by
\* the inserted records alone, and no write happened for an unchanged record;
\* so inserted_count + updated_count + unchanged = number of incoming records.
C9_PartitionComplete ==
    (calls # <<>> /\ LastCall.outcome = "returned") =>
        LET c     == LastCall
            table == TableOf(c.kind)
            n     == Len(c.incoming)
        IN  /\ Len(c.handled) = n
            /\ \A i \in 1..Len(c.handled) : c.handled[i] \in {"inserted", "updated", "unchanged"}
            /\ c.inserted_count = CountTag(c.handled, "inserted")
            /\ c.updated_count = CountTag(c.handled, "updated")
            /\ c.inserted_count + c.updated_count + CountTag(c.handled, "unchanged") = n
            /\ Len(table) = Len(before) + c.inserted_count
            /\ \A i \in 1..n :
                   LET rows == RowsWithKey(c, before, KeyOf(c.kind, c.incoming[i])) IN
                   /\ c.handled[i] = "inserted" <=> (rows = {} \/ ~c.read_ok)
                   /\ c.handled[i] = "unchanged" =>
                          \E id \in rows : \A f \in WrittenFields(c.kind, c.incoming[i]) :
                              ~PyNotEqual(DecimalOf(before[id][f]), DecimalOf(c.incoming[i][f]))
            /\ CountTag(c.handled, "updated") = 0 =>
                   \A id \in DOMAIN before : table[id] = before[id]

\* C9 witness: a call on a table that already held the key returned after
\* updating for one record and leaving another unchanged.
C9_Witness ==
    /\ calls # <<>>
    /\ LastCall.outcome = "returned"
    /\ {"updated", "unchanged"} \subseteq Range(LastCall.handled)

\* the ids of the rows the last call wrote: those it appended and those of
\* the earlier rows it left different
WrittenRows ==
    {i \in DOMAIN TableOf(LastCall.kind) :
        i > Len(before) \/ TableOf(LastCall.kind)[i] # before[i]}

\* C16: after a call of insert_major_holders or insert_financial_statements
\* that committed, every row the call inserted or updated has last_modified
\* equal to the call's csv_date.
C16_WrittenRowsStamped ==
    (calls # <<>> /\ LastCall.committed) =>
        /\ LastCall.inserted_count + LastCall.updated_count > 0
        /\ \A i \in WrittenRows :
               TableOf(LastCall.kind)[i].last_modified = LastCall.csv_date

\* C16 witness: a call that committed after inserting for one record and
\* updating for another, so that rows of both kinds are in the table.
C16_Witness ==
    /\ calls # <<>>
    /\ LastCall.committed
    /\ {"inserted", "updated"} \subseteq Range(LastCall.handled)
    /\ \E i \in WrittenRows : i > Len(before)
    /\ \E i \in WrittenRows : i <= Len(before)

\* C29 (as claimed): a call whose query for the existing rows failed inserts
\* no record whose key the table already held for the company and csv_date.
C29_FailedReadInsertsNoStoredKey ==
    (calls # <<>> /\ ~LastCall.read_ok /\ LastCall.committed) =>
        \A i \in DOMAIN LastCall.handled :
            LastCall.handled[i] = "inserted" =>
                RowsWithKey(LastCall, before, KeyOf(LastCall.kind, LastCall.incoming[i])) = {}

\* a key field that is null, empty or "nan" in any letter case
BlankOrNan(v) == v \in {None, "", "nan", "NaN", "NAN", "Nan"}

\* C10 (as claimed): a holder record whose holder_name or holder_type is null,
\* empty or "nan" is rejected: it is neither inserted nor used for an update.
C10_InvalidHolderKeyRejected ==
    (calls # <<>> /\ LastCall.kind = "holders" /\ LastCall.outcome = "returned") =>
        /\ \A i \in DOMAIN LastCall.incoming :
               (BlankOrNan(LastCall.incoming[i].holder_name)
                    \/ BlankOrNan(LastCall.incoming[i].holder_type))
               => LastCall.handled[i] \notin {"inserted", "updated"}
        /\ \A id \in DOMAIN major_holders :
               id > Len(before) => ~BlankOrNan(major_holders[id].holder_name)

-----------------------------------------------------------------------------
(* Properties of the daily price job *)

KeysOf(table) == {PriceKey(table[n]) : n \in DOMAIN table}

SameTracked(a, b) == \A f \in PriceTrackedFields : a[f] = b[f]

\* the fetched records of the last batch whose key the table already held with
\* other values
ChangedFetched ==
    { p \in Range(price_last.price_objects) :
          \E n \in DOMAIN price_last.prices_before :
              /\ PriceKey(price_last.prices_before[n]) = PriceKey(p)
              /\ ~SameTracked(price_last.prices_before[n], p) }

\* C4: a batch whose three download attempts all raised is skipped: it inserts
\* no price row, changes no yf_not_found flag, and the run goes on instead of
\* aborting, whatever the batch's position.
C4_ExhaustedBatchSkipped ==
    price_last.exhausted =>
        /\ price_run.pc # "aborted"
        /\ prices = price_last.prices_before
        /\ yf_not_found = price_last.flags_before

\* C5: a failed bulk insert or commit of a batch's new prices is caught for
\* that batch and the run continues with the next batch.
C5_StorageFailureContinues ==
    price_last.result = "storage_error" =>
        /\ price_run.pc # "aborted"
        /\ prices = price_last.prices_before

C13_PriceKeyUnique ==
    \A i, j \in DOMAIN prices : i # j => PriceKey(prices[i]) # PriceKey(prices[j])

\* the logical date of a run of the price job: the day it runs for
PriceRunDate == CHOOSE d \in PriceDates : TRUE

\* C15 (as claimed): every price row a successful batch write has written
\* carries last_modified equal to the run's logical date.
C15_WrittenPricesStamped ==
    price_last.result = "ok" =>
        \A n \in DOMAIN prices :
            n > Len(price_last.prices_before) => prices[n].last_modified = PriceRunDate

\* C22: for each batch the provider download is called at most 3 times, never
\* again after a call that returned without raising, and every call that
\* raised was followed by its sleep before the next call.
C22_BoundedRetry ==
    /\ price_run.downloads <= 3
    /\ price_run.sleeps = price_run.downloads - (IF price_run.returned THEN 1 ELSE 0)
    /\ price_run.pc = "download" =>
           /\ ~price_run.returned
           /\ price_run.downloads < 3
           /\ price_run.sleeps = price_run.downloads

\* C22 witness: a batch whose download raised twice and returned at the third
\* call, with two sleeps in between.
C22_Witness ==
    /\ price_run.pc = "pause"
    /\ price_run.returned
    /\ price_run.downloads = 3
    /\ price_run.sleeps = 2

\* C23: whenever a batch is about to make a download attempt, the inter-batch
\* delay was performed once for every batch before it, whether that batch's
\* download returned or all its attempts failed.
C23_PauseBeforeNextBatch ==
    /\ price_run.pc = "download" =>
           price_run.pauses = price_run.i \div price_run.batch_size
    /\ price_run.pc = "process" =>
           price_run.pauses = price_run.i \div price_run.batch_size + 1

\* C23 witness: a batch about to make its first attempt after a batch whose
\* attempts all failed and that was processed all the same.
C23_Witness ==
    /\ price_run.pc = "download"
    /\ price_run.i > 0
    /\ price_run.downloads = 0
    /\ price_last.exhausted
    /\ price_last.run = price_runs

\* the code get_yfinance_ticker built the company's ticker from
TickerSourceCode(company) ==
    IF is_valid_code(company.nse_code) THEN company.nse_code ELSE company.bse_code

\* C30 (as claimed): every price row carries as company_code the code its
\* company's ticker was derived from: the NSE code when the ticker is the
\* NSE one, the BSE code when it is the BSE one.
C30_CodeMatchesTickerSource ==
    \A n \in DOMAIN prices :
        prices[n].company_code = TickerSourceCode(CompanyRows[prices[n].company_id])

\* the keys of the records a run fetched
FetchedKeys(w) == {PriceKey(writers[w].price_objects[n]) : n \in DOMAIN writers[w].price_objects}

\* both runs made their existence query before either had committed an
\* insert, and both went on to commit
BothQueriedFirst ==
    \A w \in Writers :
        writers[w].pc = "done" /\ writers[w].result = "ok" /\ ~writers[w].saw_insert

\* C14: when two runs overlap so that both make their existence query for a
\* key before either commits its insert, both insert a row for that key: the
\* table ends with two rows (or more) of one natural key.
C14_RaceLeavesTwoRows ==
    BothQueriedFirst =>
        \A key \in FetchedKeys("run1") \cap FetchedKeys("run2") :
            Cardinality({n \in DOMAIN prices : PriceKey(prices[n]) = key}) >= 2

C14_Witness ==
    /\ BothQueriedFirst
    /\ FetchedKeys("run1") \cap FetchedKeys("run2") # {}
    /\ \A w \in Writers : Len(writers[w].price_objects) = 1

-----------------------------------------------------------------------------
(* Properties of the daily corporate-actions job *)

\* C6: every run that got past setup and has ended has logged or printed its
\* summary counts, also when the bulk write failed, when every fetch failed
\* and when no company had a usable ticker.
C6_SummaryAlwaysProduced ==
    \A n \in DOMAIN action_log :
        action_log[n].outcome # "running" =>
            action_log[n].summary_logged \/ action_log[n].summary_printed

\* C7: after a run that committed for a file date, a second run for the same
\* date over the same companies with the same provider data inserts no row.
C7_RerunInsertsNothing ==
    \A i, j \in DOMAIN action_log :
        ( /\ i < j
          /\ action_log[i].committed
          /\ action_log[j].file_date = action_log[i].file_date
          /\ action_log[j].companies = action_log[i].companies
          /\ action_log[j].fetched = action_log[i].fetched )
        => action_log[j].inserted = <<>>

-----------------------------------------------------------------------------
(* Properties of the daily company import *)

\* a CSV code cell that is null, NaN, blank or whitespace-only, or "nan" in any
\* letter case
InvalidCodeText(text) == text \in {None, NaN, "", " ", "nan", "NaN", "NAN", "Nan"}

InvalidCsvRow(row) == InvalidCodeText(row.nse) /\ InvalidCodeText(row.bse)

\* the places of the CSV rows with no valid code
InvalidPlaces(csv) == {n \in DOMAIN csv : InvalidCsvRow(csv[n])}

\* C11: every CSV row in which neither code is valid is counted in
\* csv_invalid_rows and becomes neither an inserted nor an updated company.
C11_InvalidRowsCountedAndSkipped ==
    imports # <<>> =>
        /\ \A n \in InvalidPlaces(LastImport.csv) : LastImport.handled[n] = "invalid"
        /\ LastImport.csv_invalid_rows = Cardinality(InvalidPlaces(LastImport.csv))
        /\ Len(companies_table) - Len(LastImport.table_before)
               <= Len(LastImport.csv) - Cardinality(InvalidPlaces(LastImport.csv))
        /\ \A n \in DOMAIN companies_table :
               ~Truthy(companies_table[n].nse_code) /\ ~Truthy(companies_table[n].bse_code)
                   => n \in DOMAIN LastImport.table_before

\* an import that committed a new company from a CSV that also held a row with
\* a whitespace-only code and a row with a "Nan" code
C11_Witness ==
    /\ imports # <<>>
    /\ LastImport.committed
    /\ Len(companies_table) > Len(LastImport.table_before)
    /\ \E n \in InvalidPlaces(LastImport.csv) : LastImport.csv[n].nse = " "

\* C19 (as claimed): two CSV rows with the same code, new to the table, end as
\* exactly one company row carrying the later row's values, and the call is
\* not aborted.
C19_DuplicateCodeLastWins ==
    imports # <<>> =>
        \A i, j \in DOMAIN LastImport.csv :
            ( /\ i < j
              /\ ~InvalidCodeText(LastImport.csv[i].nse)
              /\ LastImport.csv[i].nse = LastImport.csv[j].nse
              /\ \A n \in DOMAIN LastImport.table_before :
                     LastImport.table_before[n].nse_code # LastImport.csv[i].nse
              /\ \A k \in DOMAIN LastImport.csv : k > j =>
                     LastImport.csv[k].nse # LastImport.csv[i].nse )
            => /\ LastImport.outcome = "returned"
               /\ \/ ~LastImport.committed
                  \/ /\ Cardinality({n \in DOMAIN companies_table :
                                        companies_table[n].nse_code = LastImport.csv[i].nse}) = 1
                     /\ \A n \in DOMAIN companies_table :
                            companies_table[n].nse_code = LastImport.csv[i].nse =>
                                companies_table[n].name = LastImport.csv[j].name

-----------------------------------------------------------------------------
(* Properties of the compare functions *)

\* the values that denote one hundred
OneHundred == {"100", "100.00", "100.0"}

\* two field values that are the same once both are taken as decimals: both
\* None, or the same number whatever its representation
SameAsDecimals(a, b) == a = b \/ (a \in OneHundred /\ b \in OneHundred)

\* C12 (as claimed): the compare functions return False exactly when the
\* compared field has the same value on both sides after normalisation to
\* decimals; None is equal only to None.
C12_FalseExactlyWhenSameDecimals ==
    comparison.result \in {"True", "False"} =>
        (comparison.result = "False"
            <=> SameAsDecimals(comparison.new_val, comparison.existing_val))

-----------------------------------------------------------------------------
(* Properties of the insider-metrics job *)

\* the failures that keep a run from starting its work: no session, the table
\* not initialised or missing, the first queries of update_metrics refused
MetricsSetupErrors == {"session", "create_tables", "no_table", "query"}

\* C17 (as claimed): main of update_insider_metrics returns 0 whenever the run
\* completes, also after trades or a batch failed and were logged, and returns
\* non-zero only on a fatal setup error.
C17_NonZeroOnlyOnSetupError ==
    metrics_run.pc = "exited" =>
        (metrics_run.exit_code # 0 <=> metrics_run.cause \in MetricsSetupErrors)

\* the sum of one column over a set of trades
RECURSIVE Total(_, _)
Total(S, column) ==
    IF S = {} THEN 0
    ELSE LET t == CHOOSE t \in S : TRUE IN t[column] + Total(S \ {t}, column)

\* the trades of insidertrades in the group of row r
TradesOfGroup(r) == {u \in metric_trades : MetricsKey(MetricsParams(u)) = MetricsKey(r)}

\* the totals the table holds for the group of trade t, or no row
GroupRows(t) == {r \in metrics_table.rows : MetricsKey(r) = MetricsKey(MetricsParams(t))}

C28_NoTradeLost ==
    (metrics_run.pc = "exited" /\ metrics_run.exit_code = 0) =>
        \A t \in metric_trades :
            (TradeHasRequiredFields(t) /\ t.shares_traded # 0) => metrics_run.counted[t.id] >= 1

-----------------------------------------------------------------------------
(* Properties of the insider-trades import *)

\* a run whose CSV path cannot be used as a source or whose session cannot be
\* created
FatalSetupError(run) ==
    run.csv.kind \in {"missing", "unreadable", "empty"} \/ ~run.session_ok

\* C18 (as claimed): when the CSV path does not exist, cannot be opened or has
\* no header row, or the database session cannot be created, the script ends
\* with a non-zero exit code and imports nothing.
C18_SetupErrorExitsNonZero ==
    \A n \in DOMAIN trade_imports :
        FatalSetupError(trade_imports[n]) =>
            /\ trade_imports[n].exit_code # 0
            /\ trade_imports[n].rows_after = trade_imports[n].rows_before

\* C20 (as claimed): importing the same CSV file twice leaves insidertrades
\* with as many rows as importing it once, also when rows of the file have
\* an empty column of the uq_insidertrades_event key.
C20_ReimportKeepsRowCount ==
    (/\ Len(trade_imports) = 2
     /\ trade_imports[1].csv = trade_imports[2].csv
     /\ trade_imports[1].max_rows = trade_imports[2].max_rows
     /\ trade_imports[1].outcome = "committed"
     /\ trade_imports[2].outcome = "committed")
        => trade_imports[2].rows_after = trade_imports[1].rows_after

\* the last run of the insider-trades import
LastTradeImport == trade_imports[Len(trade_imports)]

\* the data rows the loop of a run reaches (all, or the first max_rows)
RowsReached(run) ==
    {i \in DOMAIN run.csv.rows : run.max_rows = 0 \/ i <= run.max_rows}

\* insidertrades holds a row for the event of these params
EventStored(params) ==
    \E n \in DOMAIN insidertrades :
        \A c \in EventKeyColumns : insidertrades[n][c] = params[c]

\* C24 (as claimed): after the final commit of a run every well-formed row of
\* the file whose statement was executed without error is in insidertrades,
\* whether it stands before or after a row that raised.
C24_OnlyFailingRowLost ==
    (trade_imports # <<>> /\ LastTradeImport.outcome = "committed") =>
        \A i \in RowsReached(LastTradeImport) :
            LET row == LastTradeImport.csv.rows[i]
                params == TradeParams(row, Len(trade_imports))
            IN  (row.width = "full" /\ ~StatementRaises(params)) => EventStored(params)

-----------------------------------------------------------------------------
(* Properties of the daily prices backup *)

LastBackup == backups[Len(backups)]

\* C21: after backup_prices_table completed, exactly one table whose name
\* starts with prices_daily_ exists, it is prices_daily_<today> and it holds
\* the rows of prices, whatever backups existed before the call.
C21_OnlyTodaysBackupLeft ==
    (backups # <<>> /\ LastBackup.outcome = "complete") =>
        /\ {n \in DOMAIN pg_tables : StartsWithPricesDaily(n)} = {BackupTable(LastBackup.today)}
        /\ pg_tables[BackupTable(LastBackup.today)] = pg_tables["prices"]

\* C21 witness: a call completed on a database that held a backup of today
\* and a backup of an earlier day.
C21_Witness ==
    /\ backups # <<>>
    /\ LastBackup.outcome = "complete"
    /\ BackupTable(LastBackup.today) \in LastBackup.tables_before
    /\ \E n \in LastBackup.tables_before :
           StartsWithPricesDaily(n) /\ n # BackupTable(LastBackup.today)

-----------------------------------------------------------------------------
(* Properties of the one-time corporate-actions load *)

\* the batch upsert the load ran last
LastUpsert == load_run.upserts[Len(load_run.upserts)]

\* the state right after the batch upsert of the pass over company i
RightAfterUpsert ==
    /\ load_run.upserts # <<>>
    /\ load_run.i = LastUpsert.i

\* C25: right after a failed batch upsert the table is as it was before the
\* batch, database_errors has grown by exactly 1, the buffer is empty and the
\* run goes on with the following companies; a later batch holds none of the
\* actions of a failed batch, and its actions are in the table once it has
\* been executed; at the end of a run with a failed batch every collected
\* action outside the failed batches is in the table.
C25_FailedBatchOnlyLosesItself ==
    /\ (RightAfterUpsert /\ ~LastUpsert.ok) =>
           /\ corporate_actions = LastUpsert.table_before
           /\ load_run.database_errors = LastUpsert.errors_before + 1
           /\ load_run.bulk_action_dicts = <<>>
           /\ load_run.pc # "aborted"
    /\ \A m, n \in DOMAIN load_run.upserts :
           (m < n /\ ~load_run.upserts[m].ok) =>
               /\ Range(load_run.upserts[m].actions) \cap Range(load_run.upserts[n].actions) = {}
               /\ load_run.upserts[n].i > load_run.upserts[m].i
    /\ (RightAfterUpsert /\ LastUpsert.ok) =>
           \A a \in Range(LastUpsert.actions) : a \in Range(corporate_actions)
    /\ (load_run.pc = "done" /\ \E m \in DOMAIN load_run.upserts : ~load_run.upserts[m].ok) =>
           \A a \in Range(load_run.appended) :
               \/ \E m \in DOMAIN load_run.upserts :
                      ~load_run.upserts[m].ok /\ a \in Range(load_run.upserts[m].actions)
               \/ a \in Range(corporate_actions)

\* C26: at the end of the run every action that went into the buffer has
\* been handed to a batch upsert, executed or counted in database_errors.
C26_NoCollectedActionUnwritten ==
    load_run.pc = "done" =>
        \A a \in Range(load_run.appended) :
            \E n \in DOMAIN load_run.upserts : a \in Range(load_run.upserts[n].actions)

=============================================================================
